---- MODULE Spec2Model ----
(***************************************************************************)
(* Community Microhelp: the backend (server.js) and the API client of the  *)
(* mobile application (client.js, tokenStore.js) as state machines.       *)
(*                                                                         *)
(* The document store is the record db, one field per collection, each a   *)
(* set of documents.  Every HTTP request runs in a slot r: pc[r] is the    *)
(* await the handler is suspended at, req[r] the request and the handler's *)
(* locals, res[r] the response.  One action is one run of a handler from   *)
(* one await to the next: the store operation it resumes with and the      *)
(* synchronous code up to the following await or the response.             *)
(*                                                                         *)
(* The client is the record client: memory and refreshing are the module   *)
(* variables of tokenStore.js and client.js, storage the item AsyncStorage *)
(* holds, iife the promises refreshAccessToken created.  A call of         *)
(* request() or of a function of the token store runs in a slot as well,   *)
(* one action per run from one wait for fetch or AsyncStorage to the next. *)
(***************************************************************************)
EXTENDS Integers, Sequences, FiniteSets, TLC

\* disk: the names of the files in UPLOAD_DIR
\* env: process.env as the configuration reads it at start-up
VARIABLES db, pc, req, res, clk, disk, env, client

vars == <<db, pc, req, res, clk, disk, env, client>>

\* ---------------------------------------------------------------- bounds
\* request slots of the authentication specification
MaxAuthReq == 3
\* last instant the clock reaches
MaxClock == 2

\* ---------------------------------------------------------------- values
\* null of a nullable date field; a date t in such a field is <<t>>
Null == <<>>

Tenants == {"t1", "t2"}

NoRes == [status |-> 0]

\* process.env: ALLOW_UNSAFE === "true", and NODE_ENV; express: the major
\* version of the express package the server is installed with (the
\* repository pins none)
Envs == [ALLOW_UNSAFE : BOOLEAN, NODE_ENV : {"production", "development"}, express : {4, 5}]

\* const IS_DEV_MODE = ALLOW_UNSAFE || process.env.NODE_ENV !== "production"
IS_DEV_MODE == env.ALLOW_UNSAFE \/ env.NODE_ENV # "production"

\* the configuration of a development machine: ALLOW_UNSAFE=true
DevEnv == [ALLOW_UNSAFE |-> TRUE, NODE_ENV |-> "development", express |-> 5]

\* the development configuration with either major version of express
DevEnvs == {e \in Envs : e.ALLOW_UNSAFE /\ e.NODE_ENV = "development"}

NoReq == [kind |-> "none", after |-> {}]

\* the client application before it is started: the module variables
\* memory (tokenStore) and refreshing (client.js) are null, and the device
\* holds no item under the key cmh_tokens
NoClient ==
  [ build |-> "AuthContext.js", memory |-> Null, storage |-> Null, refreshing |-> Null,
    iife |-> <<>> ]

\* String.prototype.toLowerCase on the identifiers the requests carry
ToLower(s) ==
  CASE s = "B@x.io" -> "b@x.io"
    [] s = "A@x.io" -> "a@x.io"
    [] s = "Bob" -> "bob"
    [] OTHER -> s

\* z.string().email(): the identifiers of the model that are e-mail addresses
IsEmail(s) == s \in {"a@x.io", "A@x.io", "b@x.io", "B@x.io"}

\* bcrypt.hash(plain + PASSWORD_PEPPER, salt): the salt is left out, the hash
\* determines the password it was made of
hashPassword(plain) == [alg |-> "bcrypt", of |-> plain]

verifyPassword(plain, hash) == hash = hashPassword(plain)

signToken(payload) == [jwt |-> payload]

\* 24 hours; the clock counts days where e-mail verification is concerned
EMAIL_VERIFICATION_TTL_MS == 1

\* randomToken(48): a token no document of the collection carries yet
randomToken(used) == <<"tok", Cardinality(used) + 1>>

TokenLen(t) == IF t[1] = "tok" THEN 48 ELSE 5

EmptyDb ==
  [ users |-> {}, emailVerifications |-> {}, passwordResets |-> {},
    posts |-> {}, comments |-> {}, likes |-> {}, invitations |-> {},
    chats |-> {}, groups |-> {}, groupMembers |-> {}, events |-> {},
    eventRsvps |-> {}, shares |-> {}, favorites |-> {}, messages |-> {},
    messageReads |-> {}, nextId |-> 1, issued |-> {} ]

\* ------------------------------------------------------------ request slots
\* Slots are taken in order: slot r starts after slot r - 1 has started.
CanStart(r) == pc[r] = "idle" /\ (IF r = 1 THEN TRUE ELSE pc[r - 1] # "idle")

DoneSlots == {s \in DOMAIN pc : pc[s] = "done"}

Respond(r, response) ==
  /\ pc' = [pc EXCEPT ![r] = "done"]
  /\ res' = [res EXCEPT ![r] = response]

Goto(r, label) ==
  /\ pc' = [pc EXCEPT ![r] = label]
  /\ res' = res

\* An awaited store operation rejects in an async handler that has no
\* try/catch.  express 5 passes the rejection to the error middleware, which
\* answers 500; express 4 ignores the promise the handler returns: the
\* rejection reaches process.on("unhandledRejection"), which logs it, and the
\* request is never answered.
Throw(r) ==
  IF env.express = 5
    THEN Respond(r, [status |-> 500, error |-> "Internal server error"])
    ELSE pc' = [pc EXCEPT ![r] = "hung"] /\ res' = res

\* ================================================================== Auth
signupSchema(b) ==
  /\ Len(b.tenantId) >= 1
  /\ IsEmail(b.email)
  /\ Len(b.username) >= 3 /\ Len(b.username) <= 40
  /\ Len(b.password) >= 8
  /\ Len(b.name) >= 1 /\ Len(b.name) <= 100

loginSchema(b) ==
  /\ Len(b.tenantId) >= 1
  /\ Len(b.emailOrUsername) >= 3
  /\ Len(b.password) >= 8

confirmEmailSchema(b) ==
  /\ Len(b.tenantId) >= 1
  /\ TokenLen(b.token) >= 10

SignupBodies ==
  [ tenantId : {"t1"}, email : {"b@x.io", "B@x.io"}, username : {"Bob", "a@x.io"},
    password : {"password1", "password2"}, name : {"Bob"} ]
  \cup
  [ tenantId : {"t2"}, email : {"a@x.io"}, username : {"ann"},
    password : {"short"}, name : {"Ann"} ]

LoginBodies ==
  [ tenantId : {"t1"}, emailOrUsername : {"b@x.io", "Bob", "a@x.io", "soc"},
    password : {"password1", "password2"} ]
  \cup
  [ tenantId : {"t2"}, emailOrUsername : {"a@x.io", "ab"}, password : {"password1"} ]

\* users.findOne({ tenantId, $or: [{ email }, { username }] }): the documents
\* the query matches; findOne returns one of them
UsersByEmailOrUsername(tenantId, email, username) ==
  {u \in db.users : u.tenantId = tenantId /\ (u.email = email \/ u.username = username)}

\* the unique indexes of users: (userId, tenantId), (tenantId, email),
\* (tenantId, username)
UsersDuplicateKey(doc) ==
  \E u \in db.users :
    /\ u.tenantId = doc.tenantId
    /\ (u.userId = doc.userId \/ u.email = doc.email \/ u.username = doc.username)

LocalUserId(tenantId, normalizedEmail) == <<"local", tenantId, normalizedEmail>>

\* POST /auth/signup: schema, then the lookup of a user with the e-mail or the
\* username
SignupFind(r) ==
  /\ CanStart(r)
  /\ \E b \in SignupBodies :
       LET normalizedEmail == ToLower(b.email)
           normalizedUsername == ToLower(b.username)
           exists == UsersByEmailOrUsername(b.tenantId, normalizedEmail, normalizedUsername)
           rq == [kind |-> "signup", body |-> b, after |-> DoneSlots]
       IN /\ req' = [req EXCEPT ![r] = rq]
          /\ IF ~signupSchema(b) THEN Respond(r, [status |-> 400])
             ELSE IF exists # {}
               THEN Respond(r, [status |-> 409, error |-> "Email or username already in use"])
               ELSE Goto(r, "signup_insert")
  /\ UNCHANGED <<db, clk, disk, env, client>>

\* hashPassword, then users.insertOne(doc); a duplicate key is thrown and
\* caught by the handler's catch, which answers 500
SignupInsert(r) ==
  /\ pc[r] = "signup_insert"
  /\ LET b == req[r].body
         normalizedEmail == ToLower(b.email)
         doc == [ _id |-> db.nextId,
                  userId |-> LocalUserId(b.tenantId, normalizedEmail),
                  tenantId |-> b.tenantId,
                  email |-> normalizedEmail,
                  username |-> ToLower(b.username),
                  name |-> b.name,
                  role |-> "member",
                  passwordHash |-> hashPassword(b.password),
                  emailVerified |-> FALSE ]
     IN IF UsersDuplicateKey(doc)
          THEN /\ Respond(r, [status |-> 500, error |-> "E11000 duplicate key"])
               /\ UNCHANGED <<db, req>>
          ELSE /\ db' = [db EXCEPT !.users = @ \cup {doc}, !.nextId = @ + 1]
               /\ req' = [req EXCEPT ![r] = [userId |-> doc.userId, now |-> clk] @@ @]
               /\ Goto(r, "signup_delete")
  /\ UNCHANGED <<clk, disk, env, client>>

\* emailVerifications.deleteMany({ tenantId, userId, usedAt: null })
SignupDeleteOld(r) ==
  /\ pc[r] = "signup_delete"
  /\ db' = [db EXCEPT !.emailVerifications =
              {v \in @ : ~(v.tenantId = req[r].body.tenantId
                           /\ v.userId = req[r].userId /\ v.usedAt = Null)}]
  /\ Goto(r, "signup_issue")
  /\ UNCHANGED <<req, clk, disk, env, client>>

\* emailVerifications.insertOne({ ..., token, expiresAt, usedAt: null }) and
\* the 201 response
SignupIssue(r) ==
  /\ pc[r] = "signup_issue"
  /\ LET verificationToken == randomToken(db.issued)
         doc == [ _id |-> db.nextId,
                  tenantId |-> req[r].body.tenantId,
                  userId |-> req[r].userId,
                  email |-> ToLower(req[r].body.email),
                  token |-> verificationToken,
                  expiresAt |-> req[r].now + EMAIL_VERIFICATION_TTL_MS,
                  usedAt |-> Null ]
     IN /\ db' = [db EXCEPT !.emailVerifications = @ \cup {doc}, !.nextId = @ + 1,
                            !.issued = @ \cup {verificationToken}]
        /\ Respond(r, IF env.ALLOW_UNSAFE
                         THEN [status |-> 201, requiresEmailVerification |-> TRUE,
                               verificationToken |-> verificationToken]
                         ELSE [status |-> 201, requiresEmailVerification |-> TRUE])
  /\ UNCHANGED <<req, clk, disk, env, client>>

\* a login that tests emailVerified before the password
LoginVerificationFirst(r) ==
  /\ CanStart(r)
  /\ \E b \in LoginBodies :
       LET ident == ToLower(b.emailOrUsername)
           found == UsersByEmailOrUsername(b.tenantId, ident, ident)
           rq == [kind |-> "login", body |-> b, after |-> DoneSlots]
       IN /\ req' = [req EXCEPT ![r] = rq]
          /\ IF ~loginSchema(b) THEN Respond(r, [status |-> 400])
             ELSE IF found = {}
               THEN Respond(r, [status |-> 401, error |-> "Invalid credentials"])
               ELSE \E user \in found :
                      IF user.emailVerified = FALSE
                        THEN Respond(r, [status |-> 403, code |-> "EMAIL_NOT_VERIFIED"])
                        ELSE IF user.passwordHash = Null
                                  \/ ~verifyPassword(b.password, user.passwordHash)
                          THEN Respond(r, [status |-> 401, error |-> "Invalid credentials"])
                          ELSE Respond(r, [status |-> 200,
                                 token |-> signToken([userId |-> user.userId,
                                                      tenantId |-> user.tenantId,
                                                      role |-> user.role,
                                                      email |-> user.email,
                                                      name |-> user.name])])
  /\ UNCHANGED <<db, clk, disk, env, client>>

\* POST /auth/login: the handler reads the store once (findOne) and decides
\* the response from the document it got
Login(r) ==
  /\ CanStart(r)
  /\ \E b \in LoginBodies :
       LET ident == ToLower(b.emailOrUsername)
           found == UsersByEmailOrUsername(b.tenantId, ident, ident)
           rq == [kind |-> "login", body |-> b, after |-> DoneSlots]
       IN /\ req' = [req EXCEPT ![r] = rq]
          /\ IF ~loginSchema(b) THEN Respond(r, [status |-> 400])
             ELSE IF found = {}
               THEN Respond(r, [status |-> 401, error |-> "Invalid credentials"])
               ELSE \E user \in found :
                      IF user.passwordHash = Null
                           \/ ~verifyPassword(b.password, user.passwordHash)
                        THEN Respond(r, [status |-> 401, error |-> "Invalid credentials"])
                        ELSE IF user.emailVerified = FALSE
                          THEN Respond(r, [status |-> 403, code |-> "EMAIL_NOT_VERIFIED"])
                          ELSE Respond(r, [status |-> 200,
                                 token |-> signToken([userId |-> user.userId,
                                                      tenantId |-> user.tenantId,
                                                      role |-> user.role,
                                                      email |-> user.email,
                                                      name |-> user.name])])
  /\ UNCHANGED <<db, clk, disk, env, client>>

ConfirmEmailBodies ==
  [ tenantId : {"t1"}, token : db.issued \cup {<<"tok", 0>>} ]
  \cup
  [ tenantId : {"t2"}, token : {<<"bad", 0>>} ]

\* POST /auth/email-verification/confirm: schema, then verifyEmailToken up to
\* its lookup of the token record
VerifyFindRecord(r) ==
  /\ CanStart(r)
  /\ \E b \in ConfirmEmailBodies :
       LET records == {v \in db.emailVerifications :
                         v.tenantId = b.tenantId /\ v.token = b.token}
           rq == [kind |-> "confirmEmail", body |-> b, after |-> DoneSlots]
       IN IF ~confirmEmailSchema(b)
            THEN /\ req' = [req EXCEPT ![r] = rq]
                 /\ Respond(r, [status |-> 400])
            ELSE IF records = {}
              THEN /\ req' = [req EXCEPT ![r] = rq]
                   /\ Respond(r, [status |-> 400,
                                  error |-> "Invalid or expired verification link"])
              ELSE \E record \in records :
                     /\ req' = [req EXCEPT ![r] = [record |-> record] @@ rq]
                     /\ IF record.usedAt # Null \/ record.expiresAt < clk
                          THEN Respond(r, [status |-> 400,
                                           error |-> "Invalid or expired verification link"])
                          ELSE Goto(r, "verify_user")
  /\ UNCHANGED <<db, clk, disk, env, client>>

\* users.findOne({ tenantId: record.tenantId, userId: record.userId })
VerifyFindUser(r) ==
  /\ pc[r] = "verify_user"
  /\ LET record == req[r].record
         found == {u \in db.users : u.tenantId = record.tenantId /\ u.userId = record.userId}
     IN IF found = {}
          THEN /\ Respond(r, [status |-> 400, error |-> "Account not found"])
               /\ req' = req
          ELSE \E user \in found :
                 /\ req' = [req EXCEPT ![r] = [user |-> user._id] @@ @]
                 /\ Goto(r, "verify_update")
  /\ UNCHANGED <<db, clk, disk, env, client>>

\* users.updateOne({ _id: user._id }, { $set: { emailVerified: true, ... } })
VerifyUpdateUser(r) ==
  /\ pc[r] = "verify_update"
  /\ db' = [db EXCEPT !.users =
              {IF u._id = req[r].user THEN [u EXCEPT !.emailVerified = TRUE] ELSE u : u \in @}]
  /\ req' = [req EXCEPT ![r] = [now |-> clk] @@ @]
  /\ Goto(r, "verify_used")
  /\ UNCHANGED <<clk, disk, env, client>>

\* emailVerifications.updateOne({ _id: record._id }, { $set: { usedAt: now } })
VerifyMarkUsed(r) ==
  /\ pc[r] = "verify_used"
  /\ db' = [db EXCEPT !.emailVerifications =
              {IF v._id = req[r].record._id THEN [v EXCEPT !.usedAt = <<req[r].now>>] ELSE v
                 : v \in @}]
  /\ Goto(r, "verify_delete")
  /\ UNCHANGED <<req, clk, disk, env, client>>

\* emailVerifications.deleteMany({ tenantId, userId, usedAt: null,
\* token: { $ne: record.token } }) and the 200 response
VerifyDeleteOthers(r) ==
  /\ pc[r] = "verify_delete"
  /\ LET record == req[r].record
     IN db' = [db EXCEPT !.emailVerifications =
                 {v \in @ : ~(/\ v.tenantId = record.tenantId
                              /\ v.userId = record.userId
                              /\ v.usedAt = Null
                              /\ v.token # record.token)}]
  /\ Respond(r, [status |-> 200, success |-> TRUE])
  /\ UNCHANGED <<req, clk, disk, env, client>>

\* the clock of the server
Tick ==
  /\ clk < MaxClock
  /\ clk' = clk + 1
  /\ UNCHANGED <<db, pc, req, res, disk, env, client>>

\* the TTL index { expiresAt: 1 }, expireAfterSeconds: 0 of emailVerifications
\* and passwordResets: the store removes a document whose expiresAt has passed
TtlMonitor ==
  /\ \E c \in {"emailVerifications", "passwordResets"} :
       /\ \E v \in db[c] : v.expiresAt < clk
       /\ db' = [db EXCEPT ![c] = {v \in @ : ~(v.expiresAt < clk)}]
  /\ UNCHANGED <<pc, req, res, clk, disk, env, client>>

AuthReqs == 1 .. MaxAuthReq

AuthUsers ==
  { [ _id |-> 1, userId |-> LocalUserId("t1", "a@x.io"), tenantId |-> "t1",
      email |-> "a@x.io", username |-> "ann", name |-> "Ann", role |-> "member",
      passwordHash |-> hashPassword("password1"), emailVerified |-> TRUE ],
    [ _id |-> 2, userId |-> LocalUserId("t2", "b@x.io"), tenantId |-> "t2",
      email |-> "b@x.io", username |-> "bob", name |-> "Bob", role |-> "member",
      passwordHash |-> hashPassword("password2"), emailVerified |-> TRUE ],
    \* an account that has no password hash (the case login tests with
    \* !user.passwordHash)
    [ _id |-> 3, userId |-> <<"google", "t1", "soc">>, tenantId |-> "t1",
      email |-> "s@x.io", username |-> "soc", name |-> "Soc", role |-> "member",
      passwordHash |-> Null, emailVerified |-> TRUE ] }

AuthInit ==
  /\ db = [EmptyDb EXCEPT !.users = AuthUsers, !.nextId = 4]
  /\ pc = [r \in AuthReqs |-> "idle"]
  /\ req = [r \in AuthReqs |-> NoReq]
  /\ res = [r \in AuthReqs |-> NoRes]
  /\ clk = 0
  /\ disk = {}
  /\ env = DevEnv
  /\ client = NoClient

AuthNext ==
  \/ \E r \in AuthReqs : SignupFind(r)
  \/ \E r \in AuthReqs : SignupInsert(r)
  \/ \E r \in AuthReqs : SignupDeleteOld(r)
  \/ \E r \in AuthReqs : SignupIssue(r)
  \/ \E r \in AuthReqs : Login(r)
  \/ \E r \in AuthReqs : VerifyFindRecord(r)
  \/ \E r \in AuthReqs : VerifyFindUser(r)
  \/ \E r \in AuthReqs : VerifyUpdateUser(r)
  \/ \E r \in AuthReqs : VerifyMarkUsed(r)
  \/ \E r \in AuthReqs : VerifyDeleteOthers(r)
  \/ Tick
  \/ TtlMonitor

AuthSpec == AuthInit /\ [][AuthNext]_vars

\* ======================================================= protected routes
\* bound: request slots of the specifications of protected routes
MaxReq == 3

\* jwt.sign / jwt.verify: a token is its payload and whether its signature
\* verifies and it has not expired
Jwt(userId, tenantId, role) ==
  [sig |-> "ok", payload |-> [userId |-> userId, tenantId |-> tenantId, role |-> role]]

\* what raw.split(" ") yields for an Authorization header with this token
Bearer(token) == <<"Bearer", token>>

\* function oid(id): the ObjectId of a well-formed hex string, null of any
\* other string.  A path parameter is [hex |-> well-formed, n |-> the id].
oid(id) == IF id.hex THEN <<id.n>> ELSE Null

Hex(n) == [hex |-> TRUE, n |-> n]

NotHex == [hex |-> FALSE, n |-> 0]

\* requireAuth: the credential is the Authorization header or, without one,
\* the query parameter token; [status |-> 0] lets the request through with
\* req.user (the decoded token) and req.appUser (the user document)
requireAuth(headers, query) ==
  LET raw == IF headers.authorization # Null THEN headers.authorization
             ELSE IF query.token # Null THEN Bearer(query.token[1])
             ELSE Null
  IN IF raw = Null THEN [status |-> 401, error |-> "Missing Authorization header"]
     ELSE IF raw[1] # "Bearer" \/ Len(raw) < 2
       THEN [status |-> 401, error |-> "Invalid Authorization header"]
     ELSE IF raw[2].sig # "ok" THEN [status |-> 401, error |-> "Invalid or expired token"]
     ELSE LET decoded == raw[2].payload
              found == {u \in db.users :
                          u.userId = decoded.userId /\ u.tenantId = decoded.tenantId}
          IN IF found = {} THEN [status |-> 401, error |-> "user not found"]
             ELSE [status |-> 0, user |-> decoded, appUser |-> CHOOSE u \in found : TRUE]

User(id, tenantId, email, username, role) ==
  [ _id |-> id, userId |-> LocalUserId(tenantId, email), tenantId |-> tenantId,
    email |-> email, username |-> username, name |-> username, role |-> role,
    passwordHash |-> hashPassword("password1"), emailVerified |-> TRUE ]

Ann == User(1, "t1", "a@x.io", "ann", "member")

Bob == User(2, "t1", "b@x.io", "bob", "member")

Adm == User(3, "t1", "c@x.io", "adm", "admin")

Eve == User(4, "t2", "a@x.io", "eve", "member")

TokenOf(u) == Jwt(u.userId, u.tenantId, u.role)

\* a request that carries the login token of user u in its Authorization header
As(u) == [headers |-> [authorization |-> Bearer(TokenOf(u))], query |-> [token |-> Null]]

Reqs == 1 .. MaxReq

IdleSlots ==
  /\ pc = [r \in Reqs |-> "idle"]
  /\ req = [r \in Reqs |-> NoReq]
  /\ res = [r \in Reqs |-> NoRes]
  /\ clk = 0
  /\ disk = {}
  /\ env = DevEnv
  /\ client = NoClient

\* --------------------------------------------------------------- likes
Post(id, tenantId, userId, likesCount, commentsCount) ==
  [ _id |-> id, tenantId |-> tenantId, userId |-> userId,
    commentsCount |-> commentsCount, likesCount |-> likesCount, sharesCount |-> 0 ]

\* an update of the post by _id alone
IncPostAnyTenant(posts, postId, tenantId, field, by) ==
  {IF p._id = postId THEN [p EXCEPT ![field] = @ + by] ELSE p : p \in posts}

\* posts.updateOne({ _id: postId, tenantId }, { $inc: { field: by } })
IncPost(posts, postId, tenantId, field, by) ==
  {IF p._id = postId /\ p.tenantId = tenantId THEN [p EXCEPT ![field] = @ + by] ELSE p
     : p \in posts}

\* the unique index { tenantId, postId, userId } of likes
LikesDuplicateKey(doc) ==
  \E l \in db.likes :
    l.tenantId = doc.tenantId /\ l.postId = doc.postId /\ l.userId = doc.userId

LikeUsers == {Ann, Bob, Eve}

LikePostIds == {Hex(1), Hex(2)}

\* POST or DELETE /posts/:id/like: requireAuth and the handler up to its
\* first store operation
LikeBegin(r) ==
  /\ CanStart(r)
  /\ \E u \in LikeUsers, id \in LikePostIds \cup {NotHex}, kind \in {"like", "unlike"} :
       LET auth == requireAuth(As(u).headers, As(u).query)
           rq == [kind |-> kind, by |-> u.userId, id |-> id, after |-> DoneSlots]
       IN IF auth.status # 0
            THEN /\ req' = [req EXCEPT ![r] = rq]
                 /\ Respond(r, auth)
            ELSE /\ req' = [req EXCEPT ![r] = [user |-> auth.user] @@ rq]
                 /\ IF oid(id) = Null
                      THEN Respond(r, [status |-> 400, error |-> "invalid id"])
                      ELSE Goto(r, IF kind = "like" THEN "like_insert" ELSE "unlike_delete")
  /\ UNCHANGED <<db, clk, disk, env, client>>

\* LikeInsert without the unique index of likes: every insert succeeds
LikeInsertNoUniqueIndex(r) ==
  /\ pc[r] = "like_insert"
  /\ LET doc == [ _id |-> db.nextId, tenantId |-> req[r].user.tenantId,
                  postId |-> oid(req[r].id)[1], userId |-> req[r].user.userId ]
     IN /\ db' = [db EXCEPT !.likes = @ \cup {doc}, !.nextId = @ + 1]
        /\ Goto(r, "like_inc")
  /\ UNCHANGED <<req, clk, disk, env, client>>

\* LikeInsert that goes on to the increment after a duplicate key error
LikeInsertCountsDuplicate(r) ==
  /\ pc[r] = "like_insert"
  /\ LET doc == [ _id |-> db.nextId, tenantId |-> req[r].user.tenantId,
                  postId |-> oid(req[r].id)[1], userId |-> req[r].user.userId ]
     IN IF LikesDuplicateKey(doc)
          THEN /\ Goto(r, "like_inc")
               /\ db' = db
          ELSE /\ db' = [db EXCEPT !.likes = @ \cup {doc}, !.nextId = @ + 1]
               /\ Goto(r, "like_inc")
  /\ UNCHANGED <<req, clk, disk, env, client>>

\* likes.insertOne(doc); the duplicate key error (code 11000) is caught and
\* answered 200 { liked: true }
LikeInsert(r) ==
  /\ pc[r] = "like_insert"
  /\ LET doc == [ _id |-> db.nextId, tenantId |-> req[r].user.tenantId,
                  postId |-> oid(req[r].id)[1], userId |-> req[r].user.userId ]
     IN IF LikesDuplicateKey(doc)
          THEN /\ Respond(r, [status |-> 200, liked |-> TRUE])
               /\ db' = db
          ELSE /\ db' = [db EXCEPT !.likes = @ \cup {doc}, !.nextId = @ + 1]
               /\ Goto(r, "like_inc")
  /\ UNCHANGED <<req, clk, disk, env, client>>

\* posts.updateOne(..., { $inc: { likesCount: 1 } }) and 201 { liked: true }
LikeInc(r) ==
  /\ pc[r] = "like_inc"
  /\ db' = [db EXCEPT !.posts =
              IncPost(@, oid(req[r].id)[1], req[r].user.tenantId, "likesCount", 1)]
  /\ Respond(r, [status |-> 201, liked |-> TRUE])
  /\ UNCHANGED <<req, clk, disk, env, client>>

\* UnlikeDelete that goes on to the decrement whether or not a row was
\* deleted
UnlikeDeleteAlwaysDec(r) ==
  /\ pc[r] = "unlike_delete"
  /\ LET mine == {l \in db.likes : /\ l.tenantId = req[r].user.tenantId
                                   /\ l.postId = oid(req[r].id)[1]
                                   /\ l.userId = req[r].user.userId}
     IN /\ db' = [db EXCEPT !.likes = @ \ mine]
        /\ Goto(r, "unlike_dec")
  /\ UNCHANGED <<req, clk, disk, env, client>>

\* likes.deleteOne({ tenantId, postId, userId }); without a deleted row the
\* handler answers at once
UnlikeDelete(r) ==
  /\ pc[r] = "unlike_delete"
  /\ LET mine == {l \in db.likes : /\ l.tenantId = req[r].user.tenantId
                                   /\ l.postId = oid(req[r].id)[1]
                                   /\ l.userId = req[r].user.userId}
     IN IF mine = {}
          THEN /\ Respond(r, [status |-> 200, liked |-> FALSE])
               /\ db' = db
          ELSE /\ db' = [db EXCEPT !.likes = @ \ mine]
               /\ Goto(r, "unlike_dec")
  /\ UNCHANGED <<req, clk, disk, env, client>>

\* posts.updateOne(..., { $inc: { likesCount: -1 } }) and { liked: false }
UnlikeDec(r) ==
  /\ pc[r] = "unlike_dec"
  /\ db' = [db EXCEPT !.posts =
              IncPost(@, oid(req[r].id)[1], req[r].user.tenantId, "likesCount", 0 - 1)]
  /\ Respond(r, [status |-> 200, liked |-> FALSE])
  /\ UNCHANGED <<req, clk, disk, env, client>>

LikePosts == {Post(1, "t1", Ann.userId, 1, 0), Post(2, "t2", Eve.userId, 0, 0)}

LikeRows == {[_id |-> 3, tenantId |-> "t1", postId |-> 1, userId |-> Bob.userId]}

LikeInit ==
  /\ db = [EmptyDb EXCEPT !.users = {Ann, Bob, Adm, Eve}, !.posts = LikePosts,
                          !.likes = LikeRows, !.nextId = 10]
  /\ IdleSlots

LikeNext ==
  \/ \E r \in Reqs : LikeBegin(r)
  \/ \E r \in Reqs : LikeInsert(r)
  \/ \E r \in Reqs : LikeInc(r)
  \/ \E r \in Reqs : UnlikeDelete(r)
  \/ \E r \in Reqs : UnlikeDec(r)

LikeSpec == LikeInit /\ [][LikeNext]_vars

\* ========================================================= password reset
\* bound: request slots of the password reset specification
MaxResetReq == 3

\* 30 minutes; the clock counts half hours where password resets are concerned
PASSWORD_RESET_TTL_MS == 1

requestResetSchema(b) == Len(b.tenantId) >= 1 /\ IsEmail(b.email)

confirmResetSchema(b) ==
  /\ Len(b.tenantId) >= 1
  /\ TokenLen(b.token) >= 10
  /\ Len(b.password) >= 8

RequestResetBodies ==
  [tenantId : {"t1"}, email : {"A@x.io", "b@x.io"}] \cup [tenantId : {""}, email : {"a@x.io"}]

\* the bodies of POST /auth/password-reset/confirm and, with route "page", the
\* token and the form of POST /password-reset/:token, which names no tenant
ConfirmResetBodies ==
  [ route : {"api"}, tenantId : {"t1"}, token : db.issued \cup {<<"tok", 0>>},
    password : {"password2", "password3"} ]
  \cup
  [ route : {"page"}, tenantId : {""}, token : db.issued, password : {"password2", "short"} ]

\* POST /auth/password-reset/request: schema, then users.findOne({ tenantId,
\* email }); without a user the answer is the same success message
ResetRequestFind(r) ==
  /\ CanStart(r)
  /\ \E b \in RequestResetBodies :
       LET normalizedEmail == ToLower(b.email)
           found == {u \in db.users : u.tenantId = b.tenantId /\ u.email = normalizedEmail}
           rq == [kind |-> "resetRequest", body |-> b, after |-> DoneSlots]
       IN IF ~requestResetSchema(b)
            THEN /\ req' = [req EXCEPT ![r] = rq]
                 /\ Respond(r, [status |-> 400])
            ELSE IF found = {}
              THEN /\ req' = [req EXCEPT ![r] = rq]
                   /\ Respond(r, [status |-> 200, success |-> TRUE])
              ELSE \E user \in found :
                     /\ req' = [req EXCEPT ![r] = [userId |-> user.userId] @@ rq]
                     /\ Goto(r, "reset_delete")
  /\ UNCHANGED <<db, clk, disk, env, client>>

\* passwordResets.deleteMany({ tenantId, email, usedAt: null })
ResetRequestDelete(r) ==
  /\ pc[r] = "reset_delete"
  /\ db' = [db EXCEPT !.passwordResets =
              {p \in @ : ~(/\ p.tenantId = req[r].body.tenantId
                           /\ p.email = ToLower(req[r].body.email)
                           /\ p.usedAt = Null)}]
  /\ Goto(r, "reset_issue")
  /\ UNCHANGED <<req, clk, disk, env, client>>

\* passwordResets.insertOne({ ..., token, expiresAt, usedAt: null }) and the
\* response, which carries token and resetUrl if IS_DEV_MODE
ResetRequestIssue(r) ==
  /\ pc[r] = "reset_issue"
  /\ LET token == randomToken(db.issued)
         doc == [ _id |-> db.nextId,
                  tenantId |-> req[r].body.tenantId,
                  email |-> ToLower(req[r].body.email),
                  token |-> token,
                  userId |-> req[r].userId,
                  expiresAt |-> clk + PASSWORD_RESET_TTL_MS,
                  usedAt |-> Null ]
     IN /\ db' = [db EXCEPT !.passwordResets = @ \cup {doc}, !.nextId = @ + 1,
                            !.issued = @ \cup {token}]
        /\ Respond(r, IF IS_DEV_MODE
                         THEN [status |-> 200, success |-> TRUE, token |-> token]
                         ELSE [status |-> 200, success |-> TRUE])
  /\ UNCHANGED <<req, clk, disk, env, client>>

\* POST /auth/password-reset/confirm and POST /password-reset/:token: the
\* checks of the route, then applyPasswordReset up to passwordResets.findOne
\* and its checks of the record
ResetFindToken(r) ==
  /\ CanStart(r)
  /\ \E b \in ConfirmResetBodies :
       LET resets == {p \in db.passwordResets :
                        /\ p.token = b.token
                        /\ (b.tenantId # "" => p.tenantId = b.tenantId)}
           rq == [kind |-> "resetConfirm", body |-> b, after |-> DoneSlots]
           invalid == IF b.route = "api" THEN ~confirmResetSchema(b) ELSE Len(b.password) < 8
       IN IF invalid \/ resets = {}
            THEN /\ req' = [req EXCEPT ![r] = rq]
                 /\ Respond(r, [status |-> 400])
            ELSE \E reset \in resets :
                   /\ req' = [req EXCEPT ![r] = [reset |-> reset] @@ rq]
                   /\ IF reset.usedAt # Null \/ reset.expiresAt < clk
                        THEN Respond(r, [status |-> 400,
                                         error |-> "Invalid or expired reset token"])
                        ELSE Goto(r, "reset_user")
  /\ UNCHANGED <<db, clk, disk, env, client>>

\* users.findOne({ tenantId: reset.tenantId, email: reset.email })
ResetFindUser(r) ==
  /\ pc[r] = "reset_user"
  /\ LET reset == req[r].reset
         found == {u \in db.users : u.tenantId = reset.tenantId /\ u.email = reset.email}
     IN IF found = {}
          THEN /\ Respond(r, [status |-> 400, error |-> "User not found"])
               /\ req' = req
          ELSE \E user \in found :
                 /\ req' = [req EXCEPT ![r] = [user |-> user._id] @@ @]
                 /\ Goto(r, "reset_hash")
  /\ UNCHANGED <<db, clk, disk, env, client>>

\* hashPassword, then users.updateOne({ _id: user._id }, { $set: { passwordHash } })
ResetSetPassword(r) ==
  /\ pc[r] = "reset_hash"
  /\ db' = [db EXCEPT !.users =
              {IF u._id = req[r].user
                 THEN [u EXCEPT !.passwordHash = hashPassword(req[r].body.password)]
                 ELSE u : u \in @}]
  /\ Goto(r, "reset_used")
  /\ UNCHANGED <<req, clk, disk, env, client>>

\* passwordResets.updateOne({ _id: reset._id }, { $set: { usedAt: new Date() } })
\* and the success response
ResetMarkUsed(r) ==
  /\ pc[r] = "reset_used"
  /\ db' = [db EXCEPT !.passwordResets =
              {IF p._id = req[r].reset._id THEN [p EXCEPT !.usedAt = <<clk>>] ELSE p : p \in @}]
  /\ Respond(r, [status |-> 200, success |-> TRUE])
  /\ UNCHANGED <<req, clk, disk, env, client>>

ResetReqs == 1 .. MaxResetReq

\* Ann asked for a reset link before the first request of the model
ResetRows ==
  { [ _id |-> 5, tenantId |-> "t1", email |-> "a@x.io", token |-> <<"tok", 1>>,
      userId |-> Ann.userId, expiresAt |-> PASSWORD_RESET_TTL_MS, usedAt |-> Null ] }

ResetInit ==
  /\ db = [EmptyDb EXCEPT !.users = {Ann, Eve}, !.passwordResets = ResetRows,
                          !.issued = {<<"tok", 1>>}, !.nextId = 10]
  /\ pc = [r \in ResetReqs |-> "idle"]
  /\ req = [r \in ResetReqs |-> NoReq]
  /\ res = [r \in ResetReqs |-> NoRes]
  /\ clk = 0
  /\ disk = {}
  /\ env \in Envs
  /\ client = NoClient

ResetNext ==
  \/ \E r \in ResetReqs : ResetRequestFind(r)
  \/ \E r \in ResetReqs : ResetRequestDelete(r)
  \/ \E r \in ResetReqs : ResetRequestIssue(r)
  \/ \E r \in ResetReqs : ResetFindToken(r)
  \/ \E r \in ResetReqs : ResetFindUser(r)
  \/ \E r \in ResetReqs : ResetSetPassword(r)
  \/ \E r \in ResetReqs : ResetMarkUsed(r)
  \/ Tick
  \/ TtlMonitor

ResetSpec == ResetInit /\ [][ResetNext]_vars

\* ============================================================ invitations
\* POST /invitations: requireAuth, the role and e-mail checks
InviteBegin(r) ==
  /\ CanStart(r)
  /\ \E u \in {Ann, Adm}, email \in {"New@x.io", ""} :
       LET auth == requireAuth(As(u).headers, As(u).query)
           rq == [kind |-> "invite", by |-> u.userId, email |-> email, after |-> DoneSlots]
       IN IF auth.status # 0
            THEN /\ req' = [req EXCEPT ![r] = rq]
                 /\ Respond(r, auth)
            ELSE /\ req' = [req EXCEPT ![r] = [user |-> auth.user] @@ rq]
                 /\ IF auth.appUser.role \notin {"admin", "moderator"}
                      THEN Respond(r, [status |-> 403, error |-> "forbidden"])
                      ELSE IF ToLower(email) = ""
                        THEN Respond(r, [status |-> 400, error |-> "email required"])
                        ELSE Goto(r, "invite_insert")
  /\ UNCHANGED <<db, clk, disk, env, client>>

\* invites.insertOne({ tenantId, email, token, createdBy, usedAt: null })
InviteInsert(r) ==
  /\ pc[r] = "invite_insert"
  /\ LET token == randomToken(db.issued)
         doc == [ _id |-> db.nextId, tenantId |-> req[r].user.tenantId,
                  email |-> ToLower(req[r].email), token |-> token,
                  createdBy |-> req[r].user.userId, usedAt |-> Null, usedBy |-> Null ]
     IN /\ db' = [db EXCEPT !.invitations = @ \cup {doc}, !.nextId = @ + 1,
                            !.issued = @ \cup {token}]
        /\ Respond(r, [status |-> 201, token |-> token])
  /\ UNCHANGED <<req, clk, disk, env, client>>

\* POST /invitations/accept: requireAuth
AcceptBegin(r) ==
  /\ CanStart(r)
  /\ \E u \in {Ann, Bob, Eve}, token \in db.issued \cup {<<"tok", 0>>} :
       LET auth == requireAuth(As(u).headers, As(u).query)
           rq == [kind |-> "accept", by |-> u.userId, token |-> token, after |-> DoneSlots]
       IN IF auth.status # 0
            THEN /\ req' = [req EXCEPT ![r] = rq]
                 /\ Respond(r, auth)
            ELSE /\ req' = [req EXCEPT ![r] = [user |-> auth.user] @@ rq]
                 /\ Goto(r, "accept_find")
  /\ UNCHANGED <<db, clk, disk, env, client>>

\* invites.findOne({ tenantId, token, usedAt: null })
AcceptFind(r) ==
  /\ pc[r] = "accept_find"
  /\ LET found == {i \in db.invitations : /\ i.tenantId = req[r].user.tenantId
                                          /\ i.token = req[r].token
                                          /\ i.usedAt = Null}
     IN IF found = {}
          THEN /\ Respond(r, [status |-> 400, error |-> "invalid or used token"])
               /\ req' = req
          ELSE \E inv \in found :
                 /\ req' = [req EXCEPT ![r] = [inv |-> inv._id] @@ @]
                 /\ Goto(r, "accept_update")
  /\ UNCHANGED <<db, clk, disk, env, client>>

\* invites.updateOne({ _id: inv._id }, { $set: { usedAt, usedBy } }) and
\* { ok: true }
AcceptUpdate(r) ==
  /\ pc[r] = "accept_update"
  /\ db' = [db EXCEPT !.invitations =
              {IF i._id = req[r].inv
                 THEN [i EXCEPT !.usedAt = <<clk>>, !.usedBy = req[r].user.userId]
                 ELSE i : i \in @}]
  /\ Respond(r, [status |-> 200, ok |-> TRUE])
  /\ UNCHANGED <<req, clk, disk, env, client>>

\* Adm invited someone to tenant t1 before the first request of the model
InviteRows ==
  { [ _id |-> 5, tenantId |-> "t1", email |-> "new@x.io", token |-> <<"tok", 1>>,
      createdBy |-> Adm.userId, usedAt |-> Null, usedBy |-> Null ] }

InviteInit ==
  /\ db = [EmptyDb EXCEPT !.users = {Ann, Bob, Adm, Eve}, !.invitations = InviteRows,
                          !.issued = {<<"tok", 1>>}, !.nextId = 10]
  /\ IdleSlots

InviteNext ==
  \/ \E r \in Reqs : InviteBegin(r)
  \/ \E r \in Reqs : InviteInsert(r)
  \/ \E r \in Reqs : AcceptBegin(r)
  \/ \E r \in Reqs : AcceptFind(r)
  \/ \E r \in Reqs : AcceptUpdate(r)

InviteSpec == InviteInit /\ [][InviteNext]_vars

\* ================================================================== chat
RECURSIVE Uniq(_)
\* Array.from(new Set(ids)): ids without the repeats, in order of first
\* occurrence
Uniq(ids) ==
  IF ids = <<>> THEN <<>>
  ELSE LET front == Uniq(SubSeq(ids, 1, Len(ids) - 1))
           last == ids[Len(ids)]
       IN IF \E i \in 1 .. Len(front) : front[i] = last THEN front ELSE Append(front, last)

\* ids.filter(Boolean): null and "" are dropped
FilterBoolean(ids) == SelectSeq(ids, LAMBDA x : x # Null)

Range(seq) == {seq[i] : i \in 1 .. Len(seq)}

\* { participantIds: { $all: uniqueIds, $size: 2 } }
AllAndSize2(chat, uniqueIds) ==
  Range(uniqueIds) \subseteq Range(chat.participantIds) /\ Len(chat.participantIds) = 2

ChatParticipantLists ==
  { <<>>, <<Bob.userId>>, <<Ann.userId>>, <<Null, Bob.userId, Bob.userId>>,
    <<Bob.userId, Adm.userId>> }

\* POST /chats: requireAuth, the participant list and the choice between a
\* 1:1 chat and a group
ChatBegin(r) ==
  /\ CanStart(r)
  /\ \E u \in {Ann, Bob}, participantIds \in ChatParticipantLists, title \in {"", "team"} :
       LET auth == requireAuth(As(u).headers, As(u).query)
           rq == [ kind |-> "chat", by |-> u.userId, participantIds |-> participantIds,
                   title |-> title, after |-> DoneSlots ]
       IN IF auth.status # 0
            THEN /\ req' = [req EXCEPT ![r] = rq]
                 /\ Respond(r, auth)
            ELSE LET ids == FilterBoolean(participantIds)
                     uniqueIds == Uniq(<<auth.user.userId>> \o ids)
                     isGroup == Len(uniqueIds) > 2 \/ title # ""
                 IN /\ req' = [req EXCEPT ![r] =
                                 [user |-> auth.user, uniqueIds |-> uniqueIds,
                                  isGroup |-> isGroup] @@ rq]
                    /\ IF Len(uniqueIds) < 2
                         THEN Respond(r, [status |-> 400,
                                          error |-> "need at least 2 participants"])
                         ELSE Goto(r, IF isGroup THEN "chat_insert" ELSE "chat_find")
  /\ UNCHANGED <<db, clk, disk, env, client>>

\* ChatFind with a lookup that matches nothing
ChatFindNothing(r) ==
  /\ pc[r] = "chat_find"
  /\ Goto(r, "chat_insert")
  /\ UNCHANGED <<db, req, clk, disk, env, client>>

\* chats.findOne({ tenantId, isGroup: false, participantIds: { $all, $size } });
\* the chat found is the response
ChatFind(r) ==
  /\ pc[r] = "chat_find"
  /\ LET found == {c \in db.chats : /\ c.tenantId = req[r].user.tenantId
                                    /\ c.isGroup = FALSE
                                    /\ AllAndSize2(c, req[r].uniqueIds)}
     IN IF found = {}
          THEN Goto(r, "chat_insert")
          ELSE \E chat \in found : Respond(r, [status |-> 201, chat |-> chat])
  /\ UNCHANGED <<db, req, clk, disk, env, client>>

\* chats.insertOne(doc) and the response
ChatInsert(r) ==
  /\ pc[r] = "chat_insert"
  /\ LET doc == [ _id |-> db.nextId, tenantId |-> req[r].user.tenantId,
                  isGroup |-> req[r].isGroup, participantIds |-> req[r].uniqueIds,
                  title |-> req[r].title ]
     IN /\ db' = [db EXCEPT !.chats = @ \cup {doc}, !.nextId = @ + 1]
        /\ Respond(r, [status |-> 201, chat |-> doc])
  /\ UNCHANGED <<req, clk, disk, env, client>>

\* Eve, of the other tenant, has a 1:1 chat of her own
ChatRows ==
  { [ _id |-> 5, tenantId |-> "t2", isGroup |-> FALSE,
      participantIds |-> <<Eve.userId, Bob.userId>>, title |-> "" ] }

ChatInit ==
  /\ db = [EmptyDb EXCEPT !.users = {Ann, Bob, Adm, Eve}, !.chats = ChatRows, !.nextId = 10]
  /\ IdleSlots

ChatNext ==
  \/ \E r \in Reqs : ChatBegin(r)
  \/ \E r \in Reqs : ChatFind(r)
  \/ \E r \in Reqs : ChatInsert(r)

ChatSpec == ChatInit /\ [][ChatNext]_vars

\* the clients send one request at a time: a request is sent when every
\* earlier one has been answered
NoneInFlight == \A r \in DOMAIN pc : pc[r] \in {"idle", "done"}

ChatSeqNext ==
  \/ \E r \in Reqs : NoneInFlight /\ ChatBegin(r)
  \/ \E r \in Reqs : ChatFind(r)
  \/ \E r \in Reqs : ChatInsert(r)

ChatSeqSpec == ChatInit /\ [][ChatSeqNext]_vars

\* ============================================================== comments
\* Bob's token from the time he was an admin: its role claim is admin, his
\* user document says member
BobStale == Jwt(Bob.userId, Bob.tenantId, "admin")

WithToken(token) ==
  [headers |-> [authorization |-> Bearer(token)], query |-> [token |-> Null]]

\* POST /posts/:id/comments: requireAuth, the id and the text
CommentBegin(r) ==
  /\ CanStart(r)
  /\ \E u \in {Ann, Bob}, id \in {Hex(1), Hex(9), NotHex}, text \in {"hi", ""} :
       LET auth == requireAuth(As(u).headers, As(u).query)
           rq == [kind |-> "comment", id |-> id, text |-> text, after |-> DoneSlots]
       IN IF auth.status # 0
            THEN /\ req' = [req EXCEPT ![r] = rq]
                 /\ Respond(r, auth)
            ELSE /\ req' = [req EXCEPT ![r] = [user |-> auth.user] @@ rq]
                 /\ IF oid(id) = Null
                      THEN Respond(r, [status |-> 400, error |-> "invalid id"])
                      ELSE IF text = ""
                        THEN Respond(r, [status |-> 400, error |-> "text required"])
                        ELSE Goto(r, "comment_insert")
  /\ UNCHANGED <<db, clk, disk, env, client>>

\* comments.insertOne(c)
CommentInsert(r) ==
  /\ pc[r] = "comment_insert"
  /\ LET c == [ _id |-> db.nextId, tenantId |-> req[r].user.tenantId,
                postId |-> oid(req[r].id)[1], userId |-> req[r].user.userId,
                text |-> req[r].text ]
     IN /\ db' = [db EXCEPT !.comments = @ \cup {c}, !.nextId = @ + 1]
        /\ req' = [req EXCEPT ![r] = [comment |-> c] @@ @]
  /\ Goto(r, "comment_inc")
  /\ UNCHANGED <<clk, disk, env, client>>

\* posts.updateOne(..., { $inc: { commentsCount: 1 } }) and the 201 response
CommentInc(r) ==
  /\ pc[r] = "comment_inc"
  /\ db' = [db EXCEPT !.posts =
              IncPost(@, oid(req[r].id)[1], req[r].user.tenantId, "commentsCount", 1)]
  /\ Respond(r, [status |-> 201, comment |-> req[r].comment])
  /\ UNCHANGED <<req, clk, disk, env, client>>

\* DELETE /posts/:id/comments/:commentId: requireAuth and the two ids
DeleteCommentBegin(r) ==
  /\ CanStart(r)
  /\ \E token \in {TokenOf(Ann), TokenOf(Bob), BobStale, TokenOf(Adm), TokenOf(Eve)},
        id \in {Hex(1), Hex(2)}, commentId \in {Hex(5), Hex(9), NotHex} :
       LET auth == requireAuth(WithToken(token).headers, WithToken(token).query)
           rq == [ kind |-> "deleteComment", token |-> token, id |-> id,
                   commentId |-> commentId, after |-> DoneSlots ]
       IN IF auth.status # 0
            THEN /\ req' = [req EXCEPT ![r] = rq]
                 /\ Respond(r, auth)
            ELSE /\ req' = [req EXCEPT ![r] =
                              [user |-> auth.user, appUser |-> auth.appUser] @@ rq]
                 /\ IF oid(id) = Null \/ oid(commentId) = Null
                      THEN Respond(r, [status |-> 400, error |-> "invalid id"])
                      ELSE Goto(r, "comment_find")
  /\ UNCHANGED <<db, clk, disk, env, client>>

\* comments.findOne({ _id: commentId, postId, tenantId })
CommentOf(r) ==
  {c \in db.comments : /\ c._id = oid(req[r].commentId)[1]
                       /\ c.postId = oid(req[r].id)[1]
                       /\ c.tenantId = req[r].user.tenantId}

\* DeleteCommentFind with isAdmin taken from the role claim of the token
DeleteCommentFindTokenRole(r) ==
  /\ pc[r] = "comment_find"
  /\ IF CommentOf(r) = {}
       THEN Respond(r, [status |-> 404, error |-> "not found"])
       ELSE \E c \in CommentOf(r) :
              LET isOwner == c.userId = req[r].user.userId
                  isAdmin == req[r].user.role = "admin"
              IN IF ~isOwner /\ ~isAdmin
                   THEN Respond(r, [status |-> 403, error |-> "forbidden"])
                   ELSE Goto(r, "comment_delete")
  /\ UNCHANGED <<db, req, clk, disk, env, client>>

\* the lookup of the comment, then the owner-or-admin check on the user
\* document requireAuth loaded
DeleteCommentFind(r) ==
  /\ pc[r] = "comment_find"
  /\ IF CommentOf(r) = {}
       THEN Respond(r, [status |-> 404, error |-> "not found"])
       ELSE \E c \in CommentOf(r) :
              LET isOwner == c.userId = req[r].user.userId
                  isAdmin == req[r].appUser.role = "admin"
              IN IF ~isOwner /\ ~isAdmin
                   THEN Respond(r, [status |-> 403, error |-> "forbidden"])
                   ELSE Goto(r, "comment_delete")
  /\ UNCHANGED <<db, req, clk, disk, env, client>>

\* comments.deleteOne({ _id: commentId, tenantId })
DeleteCommentRemove(r) ==
  /\ pc[r] = "comment_delete"
  /\ db' = [db EXCEPT !.comments =
              {c \in @ : ~(c._id = oid(req[r].commentId)[1]
                           /\ c.tenantId = req[r].user.tenantId)}]
  /\ Goto(r, "comment_dec")
  /\ UNCHANGED <<req, clk, disk, env, client>>

\* posts.updateOne(..., { $inc: { commentsCount: -1 } }) and { ok: true }
DeleteCommentDec(r) ==
  /\ pc[r] = "comment_dec"
  /\ db' = [db EXCEPT !.posts =
              IncPost(@, oid(req[r].id)[1], req[r].user.tenantId, "commentsCount", 0 - 1)]
  /\ Respond(r, [status |-> 200, ok |-> TRUE])
  /\ UNCHANGED <<req, clk, disk, env, client>>

CommentPosts == {Post(1, "t1", Bob.userId, 0, 1), Post(2, "t1", Ann.userId, 0, 0)}

CommentRows ==
  {[_id |-> 5, tenantId |-> "t1", postId |-> 1, userId |-> Ann.userId, text |-> "first"]}

CommentInit ==
  /\ db = [EmptyDb EXCEPT !.users = {Ann, Bob, Adm, Eve}, !.posts = CommentPosts,
                          !.comments = CommentRows, !.nextId = 10]
  /\ IdleSlots

CommentNext ==
  \/ \E r \in Reqs : CommentBegin(r)
  \/ \E r \in Reqs : CommentInsert(r)
  \/ \E r \in Reqs : CommentInc(r)
  \/ \E r \in Reqs : DeleteCommentBegin(r)
  \/ \E r \in Reqs : DeleteCommentFind(r)
  \/ \E r \in Reqs : DeleteCommentRemove(r)
  \/ \E r \in Reqs : DeleteCommentDec(r)

CommentSpec == CommentInit /\ [][CommentNext]_vars

\* ====================================================== private file fetch
\* bound: longest name a request for /uploads/:name carries
MaxNameLen == 3

\* bound: request slots of the file fetch specification
MaxUploadReq == 1

\* A name is a sequence of characters.  req.params.name is the path segment
\* as Express hands it over, percent-decoded once: it may hold "/" and "%".
NameChars == {"a", ".", "/", "%", "2", "e"}

Names == UNION {[1 .. n -> NameChars] : n \in 1 .. MaxNameLen}

HexDigits == {"a", "2", "e"}

\* the character of a %XX escape of the alphabet that is one whole UTF-8
\* sequence: %2a, %22, %2e.  The other escapes (%aX, %eX: bytes from 0x80 on,
\* with no continuation) make decodeURIComponent throw URIError.
Escaped(h1, h2) ==
  CASE h1 = "2" /\ h2 = "a" -> "*"
    [] h1 = "2" /\ h2 = "2" -> "quote"
    [] h1 = "2" /\ h2 = "e" -> "."
    [] OTHER -> "malformed"

RECURSIVE decodeURIComponent(_)
\* decodeURIComponent(s): [ok |-> FALSE] where it throws
decodeURIComponent(s) ==
  IF s = <<>> THEN [ok |-> TRUE, value |-> <<>>]
  ELSE IF s[1] # "%"
    THEN LET rest == decodeURIComponent(Tail(s))
         IN IF rest.ok THEN [ok |-> TRUE, value |-> <<s[1]>> \o rest.value] ELSE rest
  ELSE IF Len(s) < 3 \/ s[2] \notin HexDigits \/ s[3] \notin HexDigits
            \/ Escaped(s[2], s[3]) = "malformed"
    THEN [ok |-> FALSE, value |-> <<>>]
  ELSE LET rest == decodeURIComponent(SubSeq(s, 4, Len(s)))
       IN IF rest.ok THEN [ok |-> TRUE, value |-> <<Escaped(s[2], s[3])>> \o rest.value]
          ELSE rest

\* raw.replace(/[^a-zA-Z0-9._-]/g, "_")
SafeName(raw) ==
  [i \in 1 .. Len(raw) |-> IF raw[i] \in {"a", "e", "2", "."} THEN raw[i] ELSE "_"]

\* path.join(process.cwd(), "uploads"); a path is its sequence of segments
UPLOAD_DIR == <<"srv", "app", "uploads">>

RECURSIVE SplitPath(_)
\* the segments of a relative path, split at "/"
SplitPath(s) ==
  IF \A i \in 1 .. Len(s) : s[i] # "/" THEN <<s>>
  ELSE LET k == CHOOSE i \in 1 .. Len(s) : s[i] = "/" /\ \A j \in 1 .. i - 1 : s[j] # "/"
       IN <<SubSeq(s, 1, k - 1)>> \o SplitPath(SubSeq(s, k + 1, Len(s)))

RECURSIVE Normalize(_, _)
\* path.normalize: "" and "." segments are dropped, ".." removes the segment
\* before it
Normalize(done, segs) ==
  IF segs = <<>> THEN done
  ELSE IF segs[1] \in {<<>>, <<".">>} THEN Normalize(done, Tail(segs))
  ELSE IF segs[1] = <<".", ".">>
    THEN Normalize(IF done = <<>> THEN done ELSE SubSeq(done, 1, Len(done) - 1), Tail(segs))
  ELSE Normalize(Append(done, segs[1]), Tail(segs))

\* path.join(dir, name)
PathJoin(dir, name) == Normalize(dir, SplitPath(name))

InUploadDir(name) == UPLOAD_DIR \o <<name>>

\* fs.existsSync(path): the upload directory and the directories above it,
\* and the files the upload directory holds
ExistsSync(path) ==
  \/ \E n \in 0 .. Len(UPLOAD_DIR) : path = SubSeq(UPLOAD_DIR, 1, n)
  \/ \E f \in disk : path = InUploadDir(f)

IsDirectory(path) == \E n \in 0 .. Len(UPLOAD_DIR) : path = SubSeq(UPLOAD_DIR, 1, n)

\* an expired token, and the token of an account the store no longer holds
BadToken == [sig |-> "bad", payload |-> TokenOf(Ann).payload]

GhostToken == Jwt(LocalUserId("t1", "gone@x.io"), "t1", "member")

UploadHeaders ==
  { Null, Bearer(TokenOf(Ann)), Bearer(BadToken), Bearer(GhostToken),
    <<"Basic", TokenOf(Ann)>>, <<"Bearer">> }

UploadQueryTokens == {Null, <<TokenOf(Ann)>>, <<BadToken>>}

UploadReqs == 1 .. MaxUploadReq

\* GET /uploads/:name: requireAuth
UploadAuth(r) ==
  /\ CanStart(r)
  /\ \E name \in Names, authorization \in UploadHeaders, token \in UploadQueryTokens,
        download \in {"", "1"} :
       LET rq == [ kind |-> "upload", name |-> name,
                   headers |-> [authorization |-> authorization],
                   query |-> [token |-> token, download |-> download],
                   after |-> DoneSlots ]
           auth == requireAuth(rq.headers, rq.query)
       IN /\ req' = [req EXCEPT ![r] = rq]
          /\ IF auth.status # 0 THEN Respond(r, auth) ELSE Goto(r, "upload_serve")
  /\ UNCHANGED <<db, clk, disk, env, client>>

\* the handler: the name is decoded and sanitized, the file is looked up and
\* sent.  res.sendFile and res.download, given a directory, pass the request
\* on (EISDIR); no later route matches and Express answers 404.
UploadServe(r) ==
  /\ pc[r] = "upload_serve"
  /\ LET raw == decodeURIComponent(req[r].name)
         safe == SafeName(raw.value)
         filePath == PathJoin(UPLOAD_DIR, safe)
     IN IF ~raw.ok
          THEN /\ Respond(r, [status |-> 500, error |-> "URI malformed"])
               /\ req' = req
          ELSE /\ req' = [req EXCEPT ![r] = [safe |-> safe, filePath |-> filePath] @@ @]
               /\ IF ~ExistsSync(filePath)
                    THEN Respond(r, [status |-> 404, error |-> "file not found"])
                    ELSE IF IsDirectory(filePath)
                      THEN Respond(r, [status |-> 404, error |-> "Cannot GET"])
                      ELSE Respond(r, [status |-> 200, file |-> filePath,
                                       download |-> req[r].query.download = "1"])
  /\ UNCHANGED <<db, clk, disk, env, client>>

UploadedFiles == {<<"a">>, <<"2", ".", "a">>, <<"_", "_">>}

UploadInit ==
  /\ db = [EmptyDb EXCEPT !.users = {Ann, Eve}]
  /\ pc = [r \in UploadReqs |-> "idle"]
  /\ req = [r \in UploadReqs |-> NoReq]
  /\ res = [r \in UploadReqs |-> NoRes]
  /\ clk = 0
  /\ disk \in SUBSET UploadedFiles
  /\ env = DevEnv
  /\ client = NoClient

UploadNext ==
  \/ \E r \in UploadReqs : UploadAuth(r)
  \/ \E r \in UploadReqs : UploadServe(r)

UploadSpec == UploadInit /\ [][UploadNext]_vars

\* ================================================================ groups
GroupBodies == [name : {"Chess", ""}, slug : {"Chess", "chess", "go", ""}]

\* the unique index { tenantId, slug } of groups
GroupsDuplicateKey(doc) ==
  \E g \in db.groups : g.tenantId = doc.tenantId /\ g.slug = doc.slug

\* the unique index { tenantId, groupId, userId } of groupMembers
MembersDuplicateKey(doc) ==
  \E m \in db.groupMembers :
    m.tenantId = doc.tenantId /\ m.groupId = doc.groupId /\ m.userId = doc.userId

\* POST /groups: requireAuth, name and slug required
GroupBegin(r) ==
  /\ CanStart(r)
  /\ \E u \in {Ann, Bob, Eve}, b \in GroupBodies :
       LET auth == requireAuth(As(u).headers, As(u).query)
           rq == [kind |-> "group", by |-> u.userId, body |-> b, after |-> DoneSlots]
       IN IF auth.status # 0
            THEN /\ req' = [req EXCEPT ![r] = rq]
                 /\ Respond(r, auth)
            ELSE /\ req' = [req EXCEPT ![r] = [user |-> auth.user] @@ rq]
                 /\ IF b.name = "" \/ b.slug = ""
                      THEN Respond(r, [status |-> 400, error |-> "name and slug required"])
                      ELSE Goto(r, "group_insert")
  /\ UNCHANGED <<db, clk, disk, env, client>>

\* groups.insertOne(g) with slug: slug.toLowerCase(); the handler has no
\* try/catch, so a duplicate key is a rejection nothing handles
GroupInsert(r) ==
  /\ pc[r] = "group_insert"
  /\ LET g == [ _id |-> db.nextId, tenantId |-> req[r].user.tenantId,
                name |-> req[r].body.name, slug |-> ToLower(req[r].body.slug),
                createdBy |-> req[r].user.userId ]
     IN IF GroupsDuplicateKey(g)
          THEN /\ Throw(r)
               /\ UNCHANGED <<db, req>>
          ELSE /\ db' = [db EXCEPT !.groups = @ \cup {g}, !.nextId = @ + 1]
               /\ req' = [req EXCEPT ![r] = [insertedId |-> g._id] @@ @]
               /\ Goto(r, "group_owner")
  /\ UNCHANGED <<clk, disk, env, client>>

\* members.insertOne({ tenantId, groupId: r.insertedId, userId, role: "owner" })
\* and the 201 response
GroupOwner(r) ==
  /\ pc[r] = "group_owner"
  /\ LET m == [ tenantId |-> req[r].user.tenantId, groupId |-> req[r].insertedId,
                userId |-> req[r].user.userId, role |-> "owner" ]
     IN IF MembersDuplicateKey(m)
          THEN /\ Throw(r)
               /\ db' = db
          ELSE /\ db' = [db EXCEPT !.groupMembers = @ \cup {m}]
               /\ Respond(r, [status |-> 201, group |-> req[r].insertedId])
  /\ UNCHANGED <<req, clk, disk, env, client>>

\* the ids a client names: those of the groups GET /groups has listed, one
\* that no group has, and a string that is no ObjectId
GroupIds == {Hex(g._id) : g \in db.groups} \cup {Hex(9), NotHex}

\* POST /groups/:id/join: requireAuth, oid
JoinBegin(r) ==
  /\ CanStart(r)
  /\ \E u \in {Ann, Bob, Eve}, id \in GroupIds :
       LET auth == requireAuth(As(u).headers, As(u).query)
           rq == [kind |-> "join", by |-> u.userId, id |-> id, after |-> DoneSlots]
       IN IF auth.status # 0
            THEN /\ req' = [req EXCEPT ![r] = rq]
                 /\ Respond(r, auth)
            ELSE /\ req' = [req EXCEPT ![r] = [user |-> auth.user] @@ rq]
                 /\ IF oid(id) = Null
                      THEN Respond(r, [status |-> 400, error |-> "invalid id"])
                      ELSE Goto(r, "join_insert")
  /\ UNCHANGED <<db, clk, disk, env, client>>

\* a join that writes the membership with an upsert instead of an insert
JoinUpsert(r) ==
  /\ pc[r] = "join_insert"
  /\ LET m == [ tenantId |-> req[r].user.tenantId, groupId |-> oid(req[r].id)[1],
                userId |-> req[r].user.userId, role |-> "member" ]
     IN /\ db' = [db EXCEPT !.groupMembers =
                     {x \in @ : ~(/\ x.tenantId = m.tenantId /\ x.groupId = m.groupId
                                  /\ x.userId = m.userId)} \cup {m}]
        /\ Respond(r, [status |-> 201, joined |-> TRUE])
  /\ UNCHANGED <<req, clk, disk, env, client>>

\* members.insertOne({ tenantId, groupId, userId, role: "member" }); E11000
\* is answered 200 joined: true
JoinInsert(r) ==
  /\ pc[r] = "join_insert"
  /\ LET m == [ tenantId |-> req[r].user.tenantId, groupId |-> oid(req[r].id)[1],
                userId |-> req[r].user.userId, role |-> "member" ]
     IN IF MembersDuplicateKey(m)
          THEN /\ Respond(r, [status |-> 200, joined |-> TRUE])
               /\ db' = db
          ELSE /\ db' = [db EXCEPT !.groupMembers = @ \cup {m}]
               /\ Respond(r, [status |-> 201, joined |-> TRUE])
  /\ UNCHANGED <<req, clk, disk, env, client>>

\* group 7 "chess" of tenant t1, created by Ann; group 8 "go" of tenant t2,
\* created by Eve
GroupRows ==
  { [_id |-> 7, tenantId |-> "t1", name |-> "Chess", slug |-> "chess", createdBy |-> Ann.userId],
    [_id |-> 8, tenantId |-> "t2", name |-> "Go", slug |-> "go", createdBy |-> Eve.userId] }

MemberRows ==
  { [tenantId |-> "t1", groupId |-> 7, userId |-> Ann.userId, role |-> "owner"],
    [tenantId |-> "t2", groupId |-> 8, userId |-> Eve.userId, role |-> "owner"] }

GroupInit ==
  /\ db = [EmptyDb EXCEPT !.users = {Ann, Bob, Eve}, !.groups = GroupRows,
                          !.groupMembers = MemberRows, !.nextId = 10]
  /\ pc = [r \in Reqs |-> "idle"]
  /\ req = [r \in Reqs |-> NoReq]
  /\ res = [r \in Reqs |-> NoRes]
  /\ clk = 0
  /\ disk = {}
  /\ env \in DevEnvs
  /\ client = NoClient

GroupNext ==
  \/ \E r \in Reqs : GroupBegin(r)
  \/ \E r \in Reqs : GroupInsert(r)
  \/ \E r \in Reqs : GroupOwner(r)
  \/ \E r \in Reqs : JoinBegin(r)
  \/ \E r \in Reqs : JoinInsert(r)

GroupSpec == GroupInit /\ [][GroupNext]_vars

\* ========================================================= chat messages
\* new Date(0), the lastReadAt of a participant without a read marker; the
\* clock of this specification starts after it
Epoch == 0

\* chats.findOne({ _id: chatId, tenantId, participantIds: userId })
ChatOf(r) ==
  {c \in db.chats : /\ c._id = oid(req[r].id)[1]
                    /\ c.tenantId = req[r].user.tenantId
                    /\ \E i \in DOMAIN c.participantIds : c.participantIds[i] = req[r].user.userId}

\* messages.find({ tenantId, chatId }) for the requester of slot r
MessagesOf(r, chatId) ==
  {m \in db.messages : m.tenantId = req[r].user.tenantId /\ m.chatId = chatId}

\* POST /chats/:id/messages, GET /chats/:id/messages: requireAuth, oid
MessagesBegin(r) ==
  /\ CanStart(r)
  /\ \E u \in {Ann, Bob, Eve}, id \in {Hex(20), Hex(9), NotHex}, kind \in {"send", "read"} :
       LET auth == requireAuth(As(u).headers, As(u).query)
           rq == [kind |-> kind, by |-> u.userId, id |-> id, after |-> DoneSlots]
       IN IF auth.status # 0
            THEN /\ req' = [req EXCEPT ![r] = rq]
                 /\ Respond(r, auth)
            ELSE /\ req' = [req EXCEPT ![r] = [user |-> auth.user] @@ rq]
                 /\ IF oid(id) = Null
                      THEN Respond(r, [status |-> 400, error |-> "invalid id"])
                      ELSE Goto(r, IF kind = "send" THEN "send_find" ELSE "read_find")
  /\ UNCHANGED <<db, clk, disk, env, client>>

\* POST /chats/:id/messages: chats.findOne, the text, now = new Date()
SendFind(r) ==
  /\ pc[r] = "send_find"
  /\ \E text \in {"hi", ""} :
       IF ChatOf(r) = {}
         THEN Respond(r, [status |-> 404, error |-> "chat not found"]) /\ req' = req
         ELSE IF text = ""
           THEN Respond(r, [status |-> 400, error |-> "text required"]) /\ req' = req
           ELSE /\ req' = [req EXCEPT ![r] = [now |-> clk] @@ @]
                /\ Goto(r, "send_insert")
  /\ UNCHANGED <<db, clk, disk, env, client>>

\* messages.insertOne(msg) with createdAt: now
SendInsert(r) ==
  /\ pc[r] = "send_insert"
  /\ db' = [db EXCEPT !.messages = @ \cup {[ _id |-> db.nextId,
                                             tenantId |-> req[r].user.tenantId,
                                             chatId |-> oid(req[r].id)[1],
                                             senderId |-> req[r].user.userId,
                                             createdAt |-> req[r].now ]},
                      !.nextId = @ + 1]
  /\ Goto(r, "send_touch")
  /\ UNCHANGED <<req, clk, disk, env, client>>

\* chats.updateOne({ _id: chatId }, { $set: { updatedAt: now } }) and 201
SendTouch(r) ==
  /\ pc[r] = "send_touch"
  /\ db' = [db EXCEPT !.chats = {IF c._id = oid(req[r].id)[1]
                                   THEN [c EXCEPT !.updatedAt = req[r].now] ELSE c : c \in @}]
  /\ Respond(r, [status |-> 201])
  /\ UNCHANGED <<req, clk, disk, env, client>>

\* GET /chats/:id/messages: chats.findOne
ReadFind(r) ==
  /\ pc[r] = "read_find"
  /\ IF ChatOf(r) = {}
       THEN Respond(r, [status |-> 404, error |-> "chat not found"])
       ELSE Goto(r, "read_list")
  /\ UNCHANGED <<db, req, clk, disk, env, client>>

\* messages.find(...).toArray(), then the update document of the read
\* marker is built with lastReadAt: new Date()
ReadList(r) ==
  /\ pc[r] = "read_list"
  /\ req' = [req EXCEPT ![r] =
               [list |-> {m._id : m \in MessagesOf(r, oid(req[r].id)[1])}, now |-> clk] @@ @]
  /\ Goto(r, "read_mark")
  /\ UNCHANGED <<db, clk, disk, env, client>>

\* reads.updateOne({ tenantId, chatId, userId }, { $set: { lastReadAt } },
\* { upsert: true }) and the response
ReadMark(r) ==
  /\ pc[r] = "read_mark"
  /\ LET rr == [ tenantId |-> req[r].user.tenantId, chatId |-> oid(req[r].id)[1],
                 userId |-> req[r].user.userId, lastReadAt |-> req[r].now ]
     IN db' = [db EXCEPT !.messageReads =
                 {x \in @ : ~(/\ x.tenantId = rr.tenantId /\ x.chatId = rr.chatId
                              /\ x.userId = rr.userId)} \cup {rr}]
  /\ Respond(r, [status |-> 200, messages |-> req[r].list])
  /\ UNCHANGED <<req, clk, disk, env, client>>

\* GET /chats: requireAuth, chats.find({ tenantId, participantIds: userId })
ListChats(r) ==
  /\ CanStart(r)
  /\ \E u \in {Ann, Bob, Eve} :
       LET auth == requireAuth(As(u).headers, As(u).query)
           rq == [kind |-> "list", by |-> u.userId, after |-> DoneSlots]
           list == {c._id : c \in {c \in db.chats :
                      /\ c.tenantId = u.tenantId
                      /\ \E i \in DOMAIN c.participantIds : c.participantIds[i] = u.userId}}
       IN IF auth.status # 0
            THEN /\ req' = [req EXCEPT ![r] = rq]
                 /\ Respond(r, auth)
            ELSE /\ req' = [req EXCEPT ![r] =
                              [user |-> auth.user, todo |-> list, result |-> {}] @@ rq]
                 /\ Goto(r, "list_last")
  /\ UNCHANGED <<db, clk, disk, env, client>>

\* the loop of GET /chats, first await: the newest message of the next chat;
\* after the last chat the response
ListLast(r) ==
  /\ pc[r] = "list_last"
  /\ IF req[r].todo = {}
       THEN Respond(r, [status |-> 200, chats |-> req[r].result]) /\ req' = req
       ELSE \E c \in req[r].todo :
              LET ms == MessagesOf(r, c)
                  lastMsgAt == IF ms = {} THEN Null
                               ELSE <<CHOOSE t \in {m.createdAt : m \in ms} :
                                        \A m \in ms : m.createdAt <= t>>
              IN /\ req' = [req EXCEPT ![r] = [c |-> c, lastMsgAt |-> lastMsgAt] @@ @]
                 /\ Goto(r, "list_read")
  /\ UNCHANGED <<db, clk, disk, env, client>>

\* the loop of GET /chats, second await: reads.findOne, then
\* unread = lastMsgAt && lastMsgAt > lastReadAt
ListRead(r) ==
  /\ pc[r] = "list_read"
  /\ LET c == req[r].c
         rr == {x \in db.messageReads : /\ x.tenantId = req[r].user.tenantId
                                        /\ x.chatId = c /\ x.userId = req[r].user.userId}
         lastReadAt == IF rr = {} THEN Epoch ELSE (CHOOSE x \in rr : TRUE).lastReadAt
         unread == req[r].lastMsgAt # Null /\ req[r].lastMsgAt[1] > lastReadAt
     IN req' = [req EXCEPT ![r].todo = @ \ {c},
                           ![r].result = @ \cup {[_id |-> c, unread |-> unread]}]
  /\ Goto(r, "list_last")
  /\ UNCHANGED <<db, clk, disk, env, client>>

\* chat 20 of Ann and Bob, in which Bob has sent one message; nobody has read
MessagesInit ==
  /\ db = [EmptyDb EXCEPT
             !.users = {Ann, Bob, Eve},
             !.chats = {[ _id |-> 20, tenantId |-> "t1", isGroup |-> FALSE,
                          participantIds |-> <<Ann.userId, Bob.userId>>, title |-> "",
                          updatedAt |-> 1 ]},
             !.messages = {[ _id |-> 21, tenantId |-> "t1", chatId |-> 20,
                             senderId |-> Bob.userId, createdAt |-> 1 ]},
             !.nextId = 30]
  /\ pc = [r \in Reqs |-> "idle"]
  /\ req = [r \in Reqs |-> NoReq]
  /\ res = [r \in Reqs |-> NoRes]
  /\ clk = 1
  /\ disk = {}
  /\ env = DevEnv
  /\ client = NoClient

MessagesNext ==
  \/ \E r \in Reqs : MessagesBegin(r)
  \/ \E r \in Reqs : SendFind(r)
  \/ \E r \in Reqs : SendInsert(r)
  \/ \E r \in Reqs : SendTouch(r)
  \/ \E r \in Reqs : ReadFind(r)
  \/ \E r \in Reqs : ReadList(r)
  \/ \E r \in Reqs : ReadMark(r)
  \/ \E r \in Reqs : ListChats(r)
  \/ \E r \in Reqs : ListLast(r)
  \/ \E r \in Reqs : ListRead(r)
  \/ Tick

MessagesSpec == MessagesInit /\ [][MessagesNext]_vars

\* ============================================ protected routes, two tenants
\* bound: request slots of the specification of all protected routes
MaxTenantReq == 2

\* Every collection holds documents of tenant t1 and of tenant t2, and the
\* requests of the routes name the ids of both.  The server runs with either
\* major version of express.
TenantInit ==
  /\ db = [EmptyDb EXCEPT
             !.users = {Ann, Bob, Adm, Eve},
             !.posts = {Post(1, "t1", Bob.userId, 0, 0), Post(2, "t2", Eve.userId, 1, 1)},
             !.comments = {[_id |-> 5, tenantId |-> "t2", postId |-> 2,
                            userId |-> Eve.userId, text |-> "first"]},
             !.likes = {[_id |-> 3, tenantId |-> "t2", postId |-> 2, userId |-> Eve.userId]},
             !.invitations = InviteRows,
             !.issued = {<<"tok", 1>>},
             !.groups = GroupRows,
             !.groupMembers = MemberRows,
             !.chats = ChatRows \cup
                       {[ _id |-> 20, tenantId |-> "t1", isGroup |-> FALSE,
                          participantIds |-> <<Ann.userId, Bob.userId>>, title |-> "",
                          updatedAt |-> 0 ]},
             !.messages = {[ _id |-> 21, tenantId |-> "t1", chatId |-> 20,
                             senderId |-> Bob.userId, createdAt |-> 0 ]},
             !.nextId = 30]
  /\ pc = [r \in 1 .. MaxTenantReq |-> "idle"]
  /\ req = [r \in 1 .. MaxTenantReq |-> NoReq]
  /\ res = [r \in 1 .. MaxTenantReq |-> NoRes]
  /\ clk = 1
  /\ disk = {}
  /\ env \in DevEnvs
  /\ client = NoClient

TenantNext ==
  \E r \in 1 .. MaxTenantReq :
    \/ LikeBegin(r) \/ LikeInsert(r) \/ LikeInc(r) \/ UnlikeDelete(r) \/ UnlikeDec(r)
    \/ CommentBegin(r) \/ CommentInsert(r) \/ CommentInc(r)
    \/ DeleteCommentBegin(r) \/ DeleteCommentFind(r) \/ DeleteCommentRemove(r)
    \/ DeleteCommentDec(r)
    \/ InviteBegin(r) \/ InviteInsert(r) \/ AcceptBegin(r) \/ AcceptFind(r) \/ AcceptUpdate(r)
    \/ ChatBegin(r) \/ ChatFind(r) \/ ChatInsert(r)
    \/ GroupBegin(r) \/ GroupInsert(r) \/ GroupOwner(r) \/ JoinBegin(r) \/ JoinInsert(r)
    \/ MessagesBegin(r) \/ SendFind(r) \/ SendInsert(r) \/ SendTouch(r)
    \/ ReadFind(r) \/ ReadList(r) \/ ReadMark(r)
    \/ ListChats(r) \/ ListLast(r) \/ ListRead(r)

TenantSpec == TenantInit /\ [][TenantNext]_vars

\* ================================================== store operations fail
\* the handlers that await their store operations inside try/catch: POST
\* /posts/:id/like and POST /groups/:id/join
CatchesErrors(kind) == kind \in {"like", "join"}

\* The store operation that the handler in slot r awaits rejects for a reason
\* of the store (connection lost, timeout).  A handler with try/catch answers
\* 500 with e.message; in a handler without, the rejection is thrown out of
\* the handler.  req[r].failed records that the operation failed.
StoreFails(r) ==
  /\ pc[r] \notin {"idle", "done", "hung"}
  /\ req' = [req EXCEPT ![r] = [failed |-> pc[r]] @@ @]
  /\ IF CatchesErrors(req[r].kind)
       THEN Respond(r, [status |-> 500, error |-> "store error"])
       ELSE Throw(r)
  /\ UNCHANGED <<db, clk, disk, env, client>>

\* requireAuth: users.findOne rejects; its catch answers every error with
\* 401 'Invalid or expired token'
AuthFails(r) ==
  /\ CanStart(r)
  /\ \E u \in {Ann, Eve} :
       /\ req' = [req EXCEPT ![r] = [kind |-> "any", by |-> u.userId, after |-> DoneSlots,
                                     failed |-> "requireAuth"]]
       /\ Respond(r, [status |-> 401, error |-> "Invalid or expired token"])
  /\ UNCHANGED <<db, clk, disk, env, client>>

FailNext ==
  \/ TenantNext
  \/ \E r \in 1 .. MaxTenantReq : StoreFails(r)
  \/ \E r \in 1 .. MaxTenantReq : AuthFails(r)

FailSpec == TenantInit /\ [][FailNext]_vars

\* ============================================================ posts listing
\* ---------------------------------------------------------------- bounds
\* request slots of the posts specification
MaxGeoReq == 2
\* GET /posts requests of a run
MaxListReq == 1

\* a value of a numeric variable of the handlers: a finite number n, NaN,
\* or undefined
Num(n) == [type |-> "number", n |-> n]

NaN == [type |-> "NaN", n |-> 0]

Undefined == [type |-> "undefined", n |-> 0]

\* parseFloat on the strings the requests carry.  A number is held in
\* millionths (of a degree, or of a kilometre).
parseFloat(s) ==
  CASE s = "0" -> Num(0)
    [] s = "0.0045" -> Num(4500)
    [] s = "-0.0045" -> Num(0 - 4500)
    [] s = "0.009" -> Num(9000)
    [] s = "0.5" -> Num(500000)
    [] s = "1km" -> Num(1000000)
    [] s = "-1" -> Num(0 - 1000000)
    [] OTHER -> NaN

\* Number.isFinite
IsFinite(x) == x.type = "number"

\* parseInt(s, 10), held in units
parseInt(s) ==
  CASE s = "50" -> Num(50)
    [] s = "2" -> Num(2)
    [] s = "0" -> Num(0)
    [] OTHER -> NaN

\* location = { type: "Point", coordinates: [lng, lat] }; a stored location
\* is <<point>>, and Null without one
Point(lng, lat) == [type |-> "Point", coordinates |-> <<lng, lat>>]

\* The distance in metres that $geoNear computes with spherical: true, for
\* points on the equator: one degree of longitude is taken as 111,111 m, so
\* that 9 millionths of a degree are one metre.
Distance(a, b) ==
  LET d == a.coordinates[1] - b.coordinates[1]
  IN (IF d < 0 THEN 0 - d ELSE d) \div 9

\* maxDistance: Math.max(0, radiusKm) * 1000, in metres
maxDistance(radiusKm) ==
  IF ~IsFinite(radiusKm) THEN NaN
  ELSE Num((IF radiusKm.n < 0 THEN 0 ELSE radiusKm.n) \div 1000)

\* new RegExp(q, "i").test(text) on the patterns and texts of the model;
\* "(" is not a regular expression
RegExpTest(q, text) == <<q, text>> \in {<<"sale", "Yard Sale">>, <<"sale", "for sale">>}

\* a posts document with the fields the listing reads
GeoPost(id, tenantId, userId, title, content, category, location, createdAt) ==
  [ title |-> title, content |-> content, category |-> category,
    location |-> location, createdAt |-> createdAt ]
  @@ Post(id, tenantId, userId, 0, 0)

\* baseMatch: { tenantId }, category if given, and q on title or content
BaseMatch(p, tenantId, category, q) ==
  /\ p.tenantId = tenantId
  /\ category # Null => p.category = category[1]
  /\ q # Null => (RegExpTest(q[1], p.title) \/ RegExpTest(q[1], p.content))

\* $sort: { distanceMeters: 1 } alone
BeforeByDistance(a, b, geo) ==
  IF geo THEN a.distanceMeters < b.distanceMeters
  ELSE a.createdAt > b.createdAt

\* $sort: { distanceMeters: 1, createdAt: -1 } of the geo pipeline, and
\* $sort: { createdAt: -1 } of the list pipeline: a sorts before b
Before(a, b, geo) ==
  IF geo THEN \/ a.distanceMeters < b.distanceMeters
              \/ a.distanceMeters = b.distanceMeters /\ a.createdAt > b.createdAt
  ELSE a.createdAt > b.createdAt

\* the orders $sort can leave the documents in: documents with equal keys
\* come in any order
RECURSIVE SortedSeqs(_, _)
SortedSeqs(docs, geo) ==
  IF docs = {} THEN {<<>>}
  ELSE UNION { {<<m>> \o s : s \in SortedSeqs(docs \ {m}, geo)}
               : m \in {d \in docs : \A e \in docs : ~Before(e, d, geo)} }

\* $limit
Limit(s, n) == SubSeq(s, 1, IF n < Len(s) THEN n ELSE Len(s))

\* $lookup of the requester's like, $addFields likedByMe, $project
WithLikedByMe(p, me) ==
  [ likedByMe |-> \E l \in db.likes :
                    l.tenantId = p.tenantId /\ l.postId = p._id /\ l.userId = me ] @@ p

PostUsers == {Ann, Eve}

\* POST /posts: requireAuth and the handler up to insertOne
CreatePostBegin(r) ==
  /\ CanStart(r)
  /\ \E u \in PostUsers,
        c \in {<<Null, Null>>, <<<<"0">>, <<"0">>>>, <<<<"0">>, <<"0.009">>>>,
              <<<<"0">>, <<"abc">>>>} :
       LET auth == requireAuth(As(u).headers, As(u).query)
           body == [lat |-> c[1], lng |-> c[2], title |-> "Yard Sale", content |-> "",
                    category |-> Null]
           rq == [kind |-> "create_post", by |-> u.userId, body |-> body,
                  after |-> DoneSlots]
       IN IF auth.status # 0
            THEN /\ req' = [req EXCEPT ![r] = rq]
                 /\ Respond(r, auth)
            ELSE /\ req' = [req EXCEPT ![r] = [user |-> auth.user] @@ rq]
                 /\ Goto(r, "post_insert")
  /\ UNCHANGED <<db, clk, disk, env, client>>

\* posts.insertOne(doc) and 201; a location that is undefined is stored null
CreatePostInsert(r) ==
  /\ pc[r] = "post_insert"
  /\ LET b == req[r].body
         lat == IF b.lat # Null THEN parseFloat(b.lat[1]) ELSE Undefined
         lng == IF b.lng # Null THEN parseFloat(b.lng[1]) ELSE Undefined
         location == IF IsFinite(lat) /\ IsFinite(lng) THEN <<Point(lng.n, lat.n)>> ELSE Null
         doc == GeoPost(db.nextId, req[r].user.tenantId, req[r].user.userId, b.title,
                        b.content, IF b.category # Null THEN b.category[1] ELSE "General",
                        location, clk)
     IN /\ db' = [db EXCEPT !.posts = @ \cup {doc}, !.nextId = @ + 1]
        /\ Respond(r, [status |-> 201, ok |-> TRUE, post |-> doc])
  /\ UNCHANGED <<req, clk, disk, env, client>>

ListQueries ==
  [ lat : {<<"0">>, <<"abc">>}, lng : {<<"0">>, <<"0.0045">>, Null},
    radiusKm : {Null, <<"0">>, <<"0.5">>, <<"1km">>, <<"-1">>, <<"abc">>},
    limit : {Null, <<"2">>, <<"0">>}, q : {Null, <<"sale">>, <<"(">>},
    category : {Null, <<"News">>} ]

\* GET /posts: requireAuth and the handler up to aggregate; new RegExp(q)
\* throws on a q that is not a regular expression, and the catch answers 500
ListPostsBegin(r) ==
  /\ CanStart(r)
  /\ Cardinality({s \in DOMAIN pc : req[s].kind = "list_posts"}) < MaxListReq
  /\ \E u \in PostUsers, query \in ListQueries :
       LET auth == requireAuth(As(u).headers, As(u).query)
           rq == [kind |-> "list_posts", by |-> u.userId, query |-> query,
                  after |-> DoneSlots]
       IN IF auth.status # 0
            THEN /\ req' = [req EXCEPT ![r] = rq]
                 /\ Respond(r, auth)
            ELSE /\ req' = [req EXCEPT ![r] = [user |-> auth.user] @@ rq]
                 /\ IF query.q = <<"(">>
                      THEN Respond(r, [status |-> 500, error |-> "Invalid regular expression"])
                      ELSE Goto(r, "posts_aggregate")
  /\ UNCHANGED <<db, clk, disk, env, client>>

\* posts.aggregate(pipeline).toArray() and the response.  The store rejects
\* a $limit that is not positive and a maxDistance that is not a
\* non-negative number; the catch answers 500.
ListPostsAggregate(r) ==
  /\ pc[r] = "posts_aggregate"
  /\ LET query == req[r].query
         tenantId == req[r].user.tenantId
         lat == IF query.lat # Null THEN parseFloat(query.lat[1]) ELSE Undefined
         lng == IF query.lng # Null THEN parseFloat(query.lng[1]) ELSE Undefined
         radiusKm == IF query.radiusKm # Null THEN parseFloat(query.radiusKm[1])
                     ELSE Num(10000000)
         n == parseInt(IF query.limit # Null THEN query.limit[1] ELSE "50")
         limit == IF IsFinite(n) /\ n.n > 200 THEN Num(200) ELSE n
         geo == IsFinite(lat) /\ IsFinite(lng)
         base == {p \in db.posts : BaseMatch(p, tenantId, query.category, query.q)}
         near == {[distanceMeters |-> Distance(p.location[1], Point(lng.n, lat.n))] @@ p
                    : p \in {b \in base : /\ b.location # Null
                                          /\ Distance(b.location[1], Point(lng.n, lat.n))
                                               <= maxDistance(radiusKm).n}}
         rejected == \/ ~IsFinite(limit)
                     \/ limit.n <= 0
                     \/ geo /\ ~IsFinite(maxDistance(radiusKm))
     IN IF rejected
          THEN Respond(r, [status |-> 500, error |-> "aggregate failed"])
          ELSE \E s \in SortedSeqs(IF geo THEN near ELSE base, geo) :
                 LET list == [i \in 1 .. Len(Limit(s, limit.n)) |->
                                WithLikedByMe(s[i], req[r].user.userId)]
                 IN Respond(r, [status |-> 200, posts |-> list,
                                meta |-> IF geo
                                           THEN [mode |-> "geo", lat |-> lat, lng |-> lng,
                                                 radiusKm |-> radiusKm]
                                           ELSE [mode |-> "list"]])
  /\ UNCHANGED <<db, req, clk, disk, env, client>>

GeoPosts ==
  { GeoPost(1, "t1", Ann.userId, "Yard Sale", "", "General", <<Point(0, 0)>>, 0),
    GeoPost(2, "t1", Bob.userId, "Lost cat", "", "News", <<Point(4500, 0)>>, 0),
    GeoPost(3, "t1", Ann.userId, "Bike", "for sale", "General", <<Point(0 - 4500, 0)>>, 1),
    GeoPost(4, "t1", Bob.userId, "Meetup", "", "News", Null, 1),
    GeoPost(5, "t2", Eve.userId, "Yard Sale", "", "General", <<Point(0, 0)>>, 1),
    GeoPost(6, "t1", Ann.userId, "Farm", "", "General", <<Point(135000, 0)>>, 0) }

GeoInit ==
  /\ db = [EmptyDb EXCEPT !.users = {Ann, Bob, Adm, Eve}, !.posts = GeoPosts,
                          !.likes = {[_id |-> 7, tenantId |-> "t1", postId |-> 1,
                                      userId |-> Ann.userId]},
                          !.nextId = 10]
  /\ pc = [r \in 1 .. MaxGeoReq |-> "idle"]
  /\ req = [r \in 1 .. MaxGeoReq |-> NoReq]
  /\ res = [r \in 1 .. MaxGeoReq |-> NoRes]
  /\ clk = 1
  /\ disk = {}
  /\ env = DevEnv
  /\ client = NoClient

GeoNext ==
  \/ \E r \in 1 .. MaxGeoReq : CreatePostBegin(r)
  \/ \E r \in 1 .. MaxGeoReq : CreatePostInsert(r)
  \/ \E r \in 1 .. MaxGeoReq : ListPostsBegin(r)
  \/ \E r \in 1 .. MaxGeoReq : ListPostsAggregate(r)
  \/ Tick

GeoSpec == GeoInit /\ [][GeoNext]_vars

\* ================================================================== client
\* The client application (src/frontend/src/api): request() of client.js and
\* the token store.  A call runs in a slot r as the handlers do; a step is
\* one run from one wait for the network or for AsyncStorage to the next.
\* client.memory and client.refreshing are the variables of those names,
\* client.storage is the AsyncStorage item under KEY, and client.iife[id] is
\* the run of the async function that refreshAccessToken assigns to
\* refreshing: its position, its locals and how its promise settled.
\*
\* client.js imports getTokens, saveTokens, clearTokens and
\* isAccessTokenExpired from './tokenStore'.  The repository holds two texts
\* of that module: tokenStore.js, which exports getTokens, setTokens and
\* clearTokens, and the one in AuthContext.js (lines 130-170), which exports
\* saveTokens and isAccessTokenExpired too.  client.build names the text the
\* bundle is built with; with tokenStore.js the two other imports are
\* undefined and a call of them throws a TypeError.
\* ---------------------------------------------------------------- bounds
\* concurrent calls of request()
MaxClientReq == 2

ClientSlots == 1 .. MaxClientReq

Builds == {"tokenStore.js", "AuthContext.js"}

\* the promises of refreshAccessToken: the n-th one started by slot r
RefreshIds == ClientSlots \X {1, 2}

Tokens(accessToken, refreshToken, expiresAt) ==
  [accessToken |-> accessToken, refreshToken |-> refreshToken, expiresAt |-> expiresAt]

\* isAccessTokenExpired(expiresAt): Date.now() >= exp - 60 * 1000, the clock
\* counting minutes; the import is undefined in the build with tokenStore.js
isAccessTokenExpired(expiresAt) ==
  IF expiresAt = Null THEN FALSE ELSE clk >= expiresAt[1] - 1

\* what fetch gives: a response with its status, or status 0 for a rejected
\* fetch (a network error)
Answers == {200, 401, 500, 0}

\* the result of a run: the position the call is left at, its locals, the
\* client's variables and the outcome of the call
Step(label, rq, c, outcome) == [pc |-> label, rq |-> rq, client |-> c, res |-> outcome]

Apply(r, st) ==
  /\ pc' = [pc EXCEPT ![r] = st.pc]
  /\ req' = [req EXCEPT ![r] = st.rq]
  /\ res' = [res EXCEPT ![r] = st.res]
  /\ client' = st.client

Resolved(rq, c, status) ==
  Step("done", rq, c, [status |-> status, outcome |-> "resolved", error |-> ""])

Rejected(rq, c, status, error) ==
  Step("done", rq, c, [status |-> status, outcome |-> "rejected", error |-> error])

\* fetch(`${BASE_URL}${path}`, ...) of doFetch, with the Authorization
\* header of the tokens getTokens returned
SendFetch(rq, c, tokens) ==
  LET header == IF tokens # Null THEN tokens[1].accessToken ELSE Null
  IN Step("r_fetch", [rq EXCEPT !.sent = Append(@, header)], c, NoRes)

\* doFetch up to its first wait: getTokens returns memory, or waits for
\* AsyncStorage.getItem (the item it will be given is read now)
doFetch(rq, c) ==
  IF c.memory # Null THEN SendFetch(rq, c, c.memory)
  ELSE Step("r_get36", [rq EXCEPT !.item = c.storage], c, NoRes)

\* refreshAccessToken without the test of refreshing: every call starts a
\* refresh
RefreshAlways(r, rq, c, label) ==
  LET id == <<r, rq.started + 1>>
      rq2 == [rq EXCEPT !.started = @ + 1, !.awaits = <<id>>, !.calls = Append(@, label)]
      run == IF c.memory = Null THEN [pc |-> "i_get", item |-> c.storage]
             ELSE IF c.memory[1].refreshToken = Null
               THEN [pc |-> "rejected", item |-> c.memory]
               ELSE [pc |-> "i_fetch", item |-> c.memory]
  IN Step(label, rq2,
          [c EXCEPT !.iife[id] = run,
                    !.refreshing = IF run.pc = "rejected" THEN Null ELSE <<id>>],
          NoRes)

\* refreshAccessToken() up to its first wait.  With refreshing set the call
\* returns that promise.  Otherwise it starts the async function, which runs
\* to its first wait: getTokens (memory, or AsyncStorage), the throw of
\* 'No refresh token', or the POST /auth/refresh; the caller then awaits
\* refreshing, and its finally sets refreshing = null once that has settled.
refreshAccessToken(r, rq, c, label) ==
  IF c.refreshing # Null
    THEN Step(label, [rq EXCEPT !.awaits = c.refreshing, !.calls = Append(@, label)], c, NoRes)
    ELSE LET id == <<r, rq.started + 1>>
             rq2 == [rq EXCEPT !.started = @ + 1, !.awaits = <<id>>,
                               !.calls = Append(@, label)]
             run == IF c.memory = Null THEN [pc |-> "i_get", item |-> c.storage]
                    ELSE IF c.memory[1].refreshToken = Null
                      THEN [pc |-> "rejected", item |-> c.memory]
                      ELSE [pc |-> "i_fetch", item |-> c.memory]
         IN Step(label, rq2,
                 [c EXCEPT !.iife[id] = run,
                           !.refreshing = IF run.pc = "rejected" THEN Null ELSE <<id>>],
                 NoRes)

\* request() after its first getTokens: the proactive refresh of a token
\* that is about to expire, then doFetch
AfterGetTokens(r, rq, c, tokens) ==
  IF tokens # Null /\ tokens[1].accessToken # Null
    THEN IF c.build = "tokenStore.js"
           THEN Rejected(rq, c, 0, "TypeError: isAccessTokenExpired is not a function")
           ELSE IF isAccessTokenExpired(tokens[1].expiresAt)
             THEN refreshAccessToken(r, rq, c, "r_proactive")
             ELSE doFetch(rq, c)
    ELSE doFetch(rq, c)

\* clearTokens() up to its wait: memory = null, then AsyncStorage.removeItem.
\* AsyncStorage serves its calls in the order they are made: a call reads or
\* writes the item when it is made, and its promise settles later
clearTokens(rq, c, label) ==
  Step(label, [rq EXCEPT !.cleared = TRUE], [c EXCEPT !.memory = Null, !.storage = Null],
       NoRes)

\* a call of request(path, { raw }): getTokens of line 58
RequestBegin(r) ==
  /\ CanStart(r)
  /\ \E raw \in BOOLEAN :
       LET rq == [ kind |-> "request", raw |-> raw, sent |-> <<>>, item |-> Null,
                   started |-> 0, awaits |-> Null, calls |-> <<>>,
                   answers |-> <<>>, cleared |-> FALSE, refreshed |-> <<>>,
                   after |-> DoneSlots ]
       IN Apply(r, IF client.memory # Null
                     THEN AfterGetTokens(r, rq, client, client.memory)
                     ELSE Step("r_get58", [rq EXCEPT !.item = client.storage], client,
                               NoRes))
  /\ UNCHANGED <<db, clk, disk, env>>

\* getTokens of line 58 resumes with the item: memory = raw ? JSON.parse(raw)
\* : null
RequestGotTokens(r) ==
  /\ pc[r] = "r_get58"
  /\ LET c == [client EXCEPT !.memory = req[r].item]
     IN Apply(r, AfterGetTokens(r, req[r], c, req[r].item))
  /\ UNCHANGED <<db, clk, disk, env>>

\* getTokens of doFetch resumes with the item, and doFetch sends
FetchGotTokens(r) ==
  /\ pc[r] = "r_get36"
  /\ LET c == [client EXCEPT !.memory = req[r].item]
     IN Apply(r, SendFetch(req[r], c, req[r].item))
  /\ UNCHANGED <<db, clk, disk, env>>

\* fetch of doFetch settles.  raw: the response is returned.  A response
\* that is not ok is thrown with err.status, a network error without one.
\* The catch of request(): the first 401 calls refreshAccessToken and
\* retries, any other error of the first attempt is rethrown; an error of
\* the retry calls clearTokens.
FetchAnswered(r) ==
  /\ pc[r] = "r_fetch"
  /\ \E status \in Answers :
       LET rq == [req[r] EXCEPT !.answers = Append(@, status)]
           retry == Len(req[r].sent) = 2
       IN Apply(r,
            IF status # 0 /\ (rq.raw \/ status = 200) THEN Resolved(rq, client, status)
            ELSE IF retry THEN clearTokens(rq, client, "r_clear")
            ELSE IF status = 401 THEN refreshAccessToken(r, rq, client, "r_refresh")
            ELSE Rejected(rq, client, status, "HTTP error"))
  /\ UNCHANGED <<db, clk, disk, env>>

\* the promise the call awaits has settled
Settled(r) == client.iife[req[r].awaits[1]].pc \in {"resolved", "rejected"}

\* await refreshAccessToken() of line 60 resumes: doFetch, or the error of
\* the refresh, which has no status and is rethrown
ProactiveAwaited(r) ==
  /\ pc[r] = "r_proactive"
  /\ Settled(r)
  /\ LET ok == client.iife[req[r].awaits[1]].pc = "resolved"
         rq == [req[r] EXCEPT !.refreshed = Append(@, ok)]
     IN Apply(r, IF ok THEN doFetch(rq, client)
                 ELSE Rejected(rq, client, 0, "Refresh failed"))
  /\ UNCHANGED <<db, clk, disk, env>>

\* await refreshAccessToken() of line 67 resumes: the retry, or clearTokens
RefreshAwaited(r) ==
  /\ pc[r] = "r_refresh"
  /\ Settled(r)
  /\ LET ok == client.iife[req[r].awaits[1]].pc = "resolved"
         rq == [req[r] EXCEPT !.refreshed = Append(@, ok)]
     IN Apply(r, IF ok THEN doFetch(rq, client)
                 ELSE clearTokens(rq, client, "r_clear"))
  /\ UNCHANGED <<db, clk, disk, env>>

\* AsyncStorage.removeItem of clearTokens is done, and request() throws
ClearAwaited(r) ==
  /\ pc[r] = "r_clear"
  /\ Apply(r, Rejected(req[r], client, 0, "Session expired. Please log in again."))
  /\ UNCHANGED <<db, clk, disk, env>>

\* the async function of refreshAccessToken: getTokens resumes with the
\* item; without a refresh token it throws, else it sends POST /auth/refresh
IifeGotTokens(id) ==
  /\ client.iife[id].pc = "i_get"
  /\ LET item == client.iife[id].item
         fails == item = Null \/ item[1].refreshToken = Null
     IN client' = [client EXCEPT !.memory = item,
                                 !.iife[id].pc = IF fails THEN "rejected" ELSE "i_fetch",
                                 !.refreshing = IF fails THEN Null ELSE @]
  /\ UNCHANGED <<db, pc, req, res, clk, disk, env>>

\* POST /auth/refresh settles: a rejected fetch and a response that is not
\* ok end the function with an error; else saveTokens(updated), which sets
\* memory and calls AsyncStorage.setItem (in the build with tokenStore.js
\* the call of saveTokens throws)
IifeAnswered(id) ==
  /\ client.iife[id].pc = "i_fetch"
  /\ \E status \in {200, 401, 0} :
       LET updated == <<Tokens(<<"a2">>, client.iife[id].item[1].refreshToken, Null)>>
       IN client' =
            IF status # 200 \/ client.build = "tokenStore.js"
              THEN [client EXCEPT !.iife[id].pc = "rejected", !.refreshing = Null]
              ELSE [client EXCEPT !.iife[id] = [pc |-> "i_save", item |-> updated],
                                  !.memory = updated, !.storage = updated]
  /\ UNCHANGED <<db, pc, req, res, clk, disk, env>>

\* AsyncStorage.setItem of saveTokens is done: the promise resolves
IifeSaved(id) ==
  /\ client.iife[id].pc = "i_save"
  /\ client' = [client EXCEPT !.iife[id].pc = "resolved", !.refreshing = Null]
  /\ UNCHANGED <<db, pc, req, res, clk, disk, env>>

\* the tokens a login stores
LoginTokens == <<Tokens(<<"a3">>, <<"r3">>, Null)>>

\* a call of getTokens(), of saveTokens(tokens) or of clearTokens() by the
\* application (restoring the session, login, logout), up to its wait
StoreBegin(r) ==
  /\ CanStart(r)
  /\ \E kind \in {"getTokens", "saveTokens", "clearTokens"} :
       LET rq == [kind |-> kind, item |-> client.storage, after |-> DoneSlots]
       IN Apply(r,
            CASE kind = "getTokens" ->
                   IF client.memory # Null
                     THEN Step("done", rq, client,
                               [status |-> 0, outcome |-> "resolved", tokens |-> client.memory])
                     ELSE Step("g_get", rq, client, NoRes)
              [] kind = "saveTokens" ->
                   IF client.build = "tokenStore.js"
                     THEN Step("done", rq, client,
                               [status |-> 0, outcome |-> "rejected", tokens |-> Null])
                     ELSE Step("s_set", rq,
                               [client EXCEPT !.memory = LoginTokens,
                                              !.storage = LoginTokens], NoRes)
              [] OTHER -> Step("c_remove", rq,
                               [client EXCEPT !.memory = Null, !.storage = Null], NoRes))
  /\ UNCHANGED <<db, clk, disk, env>>

\* getTokens resumes with the item AsyncStorage.getItem read: memory = raw ?
\* JSON.parse(raw) : null; return memory
GetTokensAwaited(r) ==
  /\ pc[r] = "g_get"
  /\ Apply(r, Step("done", req[r], [client EXCEPT !.memory = req[r].item],
                   [status |-> 0, outcome |-> "resolved", tokens |-> req[r].item]))
  /\ UNCHANGED <<db, clk, disk, env>>

\* AsyncStorage.setItem of saveTokens is done
SaveTokensAwaited(r) ==
  /\ pc[r] = "s_set"
  /\ Apply(r, Step("done", req[r], client,
                   [status |-> 0, outcome |-> "resolved", tokens |-> Null]))
  /\ UNCHANGED <<db, clk, disk, env>>

\* AsyncStorage.removeItem of clearTokens is done
ClearTokensAwaited(r) ==
  /\ pc[r] = "c_remove"
  /\ Apply(r, Step("done", req[r], client,
                   [status |-> 0, outcome |-> "resolved", tokens |-> Null]))
  /\ UNCHANGED <<db, clk, disk, env>>

\* the item a device holds when the application starts: none, the tokens of
\* an earlier login (with a refresh token and an expiry, which has passed
\* or not when the application starts, or without them), or tokens without
\* an access token
StoredItems ==
  { Null,
    <<Tokens(<<"a1">>, <<"r1">>, <<2>>)>>,
    <<Tokens(<<"a1">>, Null, Null)>>,
    <<Tokens(Null, <<"r1">>, Null)>> }

\* the application starts: memory and refreshing are null
ClientStart(slots) ==
  /\ db = EmptyDb
  /\ pc = [r \in slots |-> "idle"]
  /\ req = [r \in slots |-> NoReq]
  /\ res = [r \in slots |-> NoRes]
  /\ clk \in {0, MaxClock}
  /\ disk = {}
  /\ env = DevEnv
  /\ \E build \in Builds, item \in StoredItems :
       client = [ build |-> build, memory |-> Null, storage |-> item, refreshing |-> Null,
                  iife |-> [id \in RefreshIds |-> [pc |-> "none", item |-> Null]] ]

ClientInit == ClientStart(ClientSlots)

ClientNext ==
  \/ \E r \in ClientSlots : RequestBegin(r)
  \/ \E r \in ClientSlots : RequestGotTokens(r)
  \/ \E r \in ClientSlots : FetchGotTokens(r)
  \/ \E r \in ClientSlots : FetchAnswered(r)
  \/ \E r \in ClientSlots : ProactiveAwaited(r)
  \/ \E r \in ClientSlots : RefreshAwaited(r)
  \/ \E r \in ClientSlots : ClearAwaited(r)
  \/ \E id \in RefreshIds : IifeGotTokens(id)
  \/ \E id \in RefreshIds : IifeAnswered(id)
  \/ \E id \in RefreshIds : IifeSaved(id)

\* concurrent calls of request()
ClientSpec == ClientInit /\ [][ClientNext]_vars

\* calls of the token store specification
MaxStoreReq == 3

TokenStoreNext ==
  \/ \E r \in 1 .. MaxStoreReq : StoreBegin(r)
  \/ \E r \in 1 .. MaxStoreReq : GetTokensAwaited(r)
  \/ \E r \in 1 .. MaxStoreReq : SaveTokensAwaited(r)
  \/ \E r \in 1 .. MaxStoreReq : ClearTokensAwaited(r)

\* concurrent calls of the functions of the token store
TokenStoreInit == ClientStart(1 .. MaxStoreReq)

TokenStoreSpec == TokenStoreInit /\ [][TokenStoreNext]_vars

\* ------------------------------------------------------------------ claims
IsDone(r, kind) == pc[r] = "done" /\ req[r].kind = kind

\* C1: a signup whose lowercased e-mail or username is already used in the
\* tenant is answered 409 under every interleaving: a schema-valid signup
\* that creates no account is answered 409 and with no other error status,
\* and no tenant holds two users with one e-mail or one username.
C1_SignupConflictIs409 ==
  /\ \A r \in DOMAIN pc :
       (IsDone(r, "signup") /\ signupSchema(req[r].body) /\ res[r].status # 201)
         => res[r].status = 409
  /\ \A u, v \in db.users :
       (u.tenantId = v.tenantId /\ (u.email = v.email \/ u.username = v.username))
         => u = v

\* the e-mail verification of the account signup s created was confirmed
\* before request l began
VerifiedBefore(s, l) ==
  \E c \in req[l].after :
    /\ req[c].kind = "confirmEmail"
    /\ res[c].status = 200
    /\ req[c].body.token = res[s].verificationToken

\* C3: after a signup answered 201 (and, the account being created
\* unverified, after its e-mail verification was confirmed), a login with the
\* same tenantId and password and the signup's e-mail or username is answered
\* 200 with a token whose userId is the one the signup created, whatever
\* other accounts the tenant holds.
C3_LoginAfterSignup ==
  \A s, l \in DOMAIN pc :
    ( /\ IsDone(s, "signup") /\ res[s].status = 201
      /\ IsDone(l, "login") /\ s \in req[l].after
      /\ VerifiedBefore(s, l)
      /\ req[l].body.tenantId = req[s].body.tenantId
      /\ req[l].body.password = req[s].body.password
      /\ req[l].body.emailOrUsername \in {req[s].body.email, req[s].body.username} )
    => (res[l].status = 200 /\ res[l].token.jwt.userId = req[s].userId)

\* the like requests of user u for post p that have been answered
LikesAnswered(u, p) ==
  {r \in DOMAIN pc : IsDone(r, "like") /\ req[r].by = u.userId /\ req[r].id = Hex(p._id)}

\* user u sent two or more likes for post p of their tenant, which they had
\* not liked before; all were answered and no other like or unlike for p was
\* sent
LikedTwice(u, p) ==
  /\ p.tenantId = u.tenantId
  /\ ~\E l \in LikeRows : l.tenantId = u.tenantId /\ l.postId = p._id /\ l.userId = u.userId
  /\ Cardinality(LikesAnswered(u, p)) >= 2
  /\ \A r \in DOMAIN pc :
       (req[r].kind \in {"like", "unlike"} /\ req[r].id = Hex(p._id))
         => r \in LikesAnswered(u, p)

\* C2: when a user likes the same existing post twice (in sequence or
\* concurrently), both responses carry liked: true, one like row exists for
\* (tenant, post, user) and likesCount is 1 above its value before.
C2_LikeTwiceCountsOnce ==
  \A u \in LikeUsers, p \in LikePosts :
    LikedTwice(u, p) =>
      /\ \A r \in LikesAnswered(u, p) : res[r].status \in {200, 201} /\ res[r].liked = TRUE
      /\ Cardinality({l \in db.likes : /\ l.tenantId = u.tenantId
                                       /\ l.postId = p._id
                                       /\ l.userId = u.userId}) = 1
      /\ \A q \in db.posts : q._id = p._id => q.likesCount = p.likesCount + 1

\* two likes of one user for one post were answered, one 201 and one 200
C2_Witness ==
  \E u \in LikeUsers, p \in LikePosts :
    /\ LikedTwice(u, p)
    /\ {res[r].status : r \in LikesAnswered(u, p)} = {200, 201}

\* C4: a password reset token changes a password at most once: of the
\* confirms that carry one token, at most one is answered with success, and
\* every other one, also one that runs concurrently, is rejected with 400.
C4_ResetTokenSingleUse ==
  \A r1, r2 \in DOMAIN pc :
    ( /\ r1 # r2
      /\ IsDone(r1, "resetConfirm") /\ IsDone(r2, "resetConfirm")
      /\ req[r1].body.token = req[r2].body.token
      /\ res[r1].status = 200 )
    => res[r2].status = 400

\* C5: an invitation token is consumed at most once: of the accepts that
\* carry one token in one tenant, under any interleaving, one is answered ok
\* and every other one 400, and usedBy, once set, is never overwritten.
C5_InvitationSingleUse ==
  /\ \A r1, r2 \in DOMAIN pc :
       ( /\ r1 # r2
         /\ IsDone(r1, "accept") /\ IsDone(r2, "accept")
         /\ req[r1].token = req[r2].token
         /\ res[r1].status = 200 /\ res[r2].status # 401
         /\ req[r1].user.tenantId = req[r2].user.tenantId )
       => res[r2].status = 400
  /\ \A r \in DOMAIN pc :
       (IsDone(r, "accept") /\ res[r].status = 200)
         => \E i \in db.invitations : i._id = req[r].inv /\ i.usedBy = req[r].user.userId

\* request r, answered, was sent by user `by` and names exactly the
\* participants of the list ids, with no title
ChatCall(r, by, ids) ==
  /\ IsDone(r, "chat") /\ res[r].status = 201
  /\ req[r].by = by /\ req[r].participantIds = ids /\ req[r].title = ""

\* the 1:1 chats of a tenant between two users
DirectChats(tenantId, a, b) ==
  {c \in db.chats : /\ c.tenantId = tenantId /\ c.isGroup = FALSE
                    /\ Range(c.participantIds) = {a, b}}

\* C6: two POST /chats calls in sequence by one user, each naming the same
\* single other participant and no title, return the same chat _id and leave
\* one chat row for the pair; a following call that names a third participant
\* as well creates a chat with isGroup true and another _id.
C6_DirectChatReused ==
  \A r1, r2, r3 \in DOMAIN pc :
    \A u \in {Ann, Bob}, o \in {Ann, Bob} :
      ( /\ u # o /\ r1 \in req[r2].after
        /\ ChatCall(r1, u.userId, <<o.userId>>) /\ ChatCall(r2, u.userId, <<o.userId>>) )
      => /\ res[r1].chat._id = res[r2].chat._id
         /\ Cardinality(DirectChats(u.tenantId, u.userId, o.userId)) = 1
         /\ (r2 \in req[r3].after /\ ChatCall(r3, u.userId, <<o.userId, Adm.userId>>))
              => /\ res[r3].chat.isGroup = TRUE
                 /\ res[r3].chat._id # res[r1].chat._id
                 /\ res[r3].chat \in db.chats

\* the three calls of C6 were made and answered
C6_Witness ==
  \E r1, r2, r3 \in DOMAIN pc :
    /\ r1 \in req[r2].after /\ r2 \in req[r3].after
    /\ ChatCall(r1, Ann.userId, <<Bob.userId>>)
    /\ ChatCall(r2, Ann.userId, <<Bob.userId>>)
    /\ ChatCall(r3, Ann.userId, <<Bob.userId, Adm.userId>>)

\* C7: in every reachable state a tenant holds at most one chat with isGroup
\* false for each pair of users, also when requests for the pair run
\* concurrently.
C7_OneDirectChatPerPair ==
  \A c1, c2 \in db.chats :
    ( /\ c1.tenantId = c2.tenantId
      /\ c1.isGroup = FALSE /\ c2.isGroup = FALSE
      /\ Len(c1.participantIds) = 2
      /\ Range(c1.participantIds) = Range(c2.participantIds) )
    => c1 = c2

\* the role the store holds for the requester of r
StoreRole(r) ==
  {u.role : u \in {u \in db.users : /\ u.userId = req[r].user.userId
                                    /\ u.tenantId = req[r].user.tenantId}}

\* the comment r is to delete exists under the post of the path, and the
\* requester is neither its author nor an admin in the store
ForbiddenDelete(r) ==
  /\ req[r].kind = "deleteComment"
  /\ pc[r] = "comment_find"
  /\ CommentOf(r) # {}
  /\ \A c \in CommentOf(r) : c.userId # req[r].user.userId
  /\ "admin" \notin StoreRole(r)

\* C8: DELETE /posts/:id/comments/:commentId by a requester who is neither
\* the author of the comment nor an admin in the store is answered 403, and
\* the step that answers leaves the comments and the posts (commentsCount)
\* as they were.
C8_DeleteCommentForbidden ==
  [][ \A r \in DOMAIN pc :
        (ForbiddenDelete(r) /\ pc'[r] # pc[r])
          => /\ pc'[r] = "done"
             /\ res'[r].status = 403
             /\ db'.comments = db.comments
             /\ db'.posts = db.posts ]_vars

\* a delete by Bob, who holds a token with the role claim admin and is a
\* member in the store, was answered 403 and the comment is in the store
C8_Witness ==
  \E r \in DOMAIN pc :
    /\ IsDone(r, "deleteComment")
    /\ req[r].token = BobStale
    /\ res[r].status = 403
    /\ \E c \in db.comments : c._id = oid(req[r].commentId)[1] /\ c.userId = Ann.userId

\* token verifies and belongs to a user the store holds
TokenOfExistingUser(token) ==
  /\ token.sig = "ok"
  /\ \E u \in db.users :
       u.userId = token.payload.userId /\ u.tenantId = token.payload.tenantId

\* the Authorization header of the request is Bearer with such a token
ValidBearerHeader(rq) ==
  /\ rq.headers.authorization # Null
  /\ Len(rq.headers.authorization) = 2
  /\ rq.headers.authorization[1] = "Bearer"
  /\ TokenOfExistingUser(rq.headers.authorization[2])

\* the request carries no such token, neither in the header nor in the query
CarriesNoValidToken(rq) ==
  /\ ~ValidBearerHeader(rq)
  /\ rq.query.token # Null => ~TokenOfExistingUser(rq.query.token[1])

\* the upload directory holds no file of the sanitized name of the request
NoFileOfSanitizedName(rq) ==
  \A f \in disk :
    ~(decodeURIComponent(rq.name).ok /\ f = SafeName(decodeURIComponent(rq.name).value))

\* C9: GET /uploads/:name is answered 401 whenever the request carries no
\* valid bearer token of an existing user, whether or not the file exists;
\* with a valid token and no file of the sanitized name it is answered 404;
\* and a file is sent only by this route, to an authenticated request.
C9_UploadsNeedAuth ==
  \A r \in DOMAIN pc :
    IsDone(r, "upload") =>
      /\ CarriesNoValidToken(req[r]) => res[r].status = 401
      /\ (ValidBearerHeader(req[r]) /\ NoFileOfSanitizedName(req[r])) => res[r].status = 404
      /\ res[r].status = 200 => ~CarriesNoValidToken(req[r])

\* C10: the path GET /uploads/:name tests and serves lies strictly inside
\* the upload directory: the sanitized name holds no separator and the joined
\* path is neither the upload directory nor a path above or beside it.
C10_PathInsideUploadDir ==
  \A r \in DOMAIN pc :
    (req[r].kind = "upload" /\ "filePath" \in DOMAIN req[r]) =>
      /\ \A i \in 1 .. Len(req[r].safe) : req[r].safe[i] # "/"
      /\ Len(req[r].filePath) > Len(UPLOAD_DIR)
      /\ SubSeq(req[r].filePath, 1, Len(UPLOAD_DIR)) = UPLOAD_DIR

\* the password-reset request in slot r was schema-valid and has been answered
ResetRequestAnswered(r) ==
  IsDone(r, "resetRequest") /\ requestResetSchema(req[r].body)

\* C11: the response of POST /auth/password-reset/request to a schema-valid
\* body is the same, status and body, whether or not a user with that e-mail
\* exists in the tenant.
C11_ResetRequestUniform ==
  \A r, q \in DOMAIN pc :
    ( /\ ResetRequestAnswered(r) /\ "userId" \in DOMAIN req[r]
      /\ ResetRequestAnswered(q) /\ "userId" \notin DOMAIN req[q] )
    => res[r] = res[q]

\* slot r runs POST /auth/login in this step
LoginStep(r) == pc[r] = "idle" /\ pc'[r] = "done" /\ req'[r].kind = "login"

\* the accounts of the tenant that body b gives correct credentials for: the
\* lowercased identifier is the account's e-mail or username and the password
\* is the account's
AccountsOf(b) ==
  {u \in db.users :
     /\ u.tenantId = b.tenantId
     /\ ToLower(b.emailOrUsername) \in {u.email, u.username}
     /\ u.passwordHash # Null
     /\ verifyPassword(b.password, u.passwordHash)}

\* the e-mail verification of account u has been confirmed with 200
VerificationConfirmed(u) ==
  \E c \in DOMAIN pc :
    /\ IsDone(c, "confirmEmail") /\ res[c].status = 200
    /\ req[c].record.tenantId = u.tenantId /\ req[c].record.userId = u.userId

\* C12: no login issues a token for an account whose emailVerified is false;
\* a login with correct credentials for such an account is answered 403 with
\* code EMAIL_NOT_VERIFIED; and once the account's verification has been
\* confirmed, the login with those credentials is answered 200 with a token
\* of that account.
C12_LoginNeedsVerifiedEmail ==
  [][ \A r \in DOMAIN pc :
        (LoginStep(r) /\ loginSchema(req'[r].body)) =>
          /\ res'[r].status = 200 =>
               \A u \in db.users :
                 (u.userId = res'[r].token.jwt.userId /\ u.tenantId = res'[r].token.jwt.tenantId)
                   => u.emailVerified # FALSE
          /\ \A u \in AccountsOf(req'[r].body) :
               /\ u.emailVerified = FALSE =>
                    (res'[r].status = 403 /\ res'[r].code = "EMAIL_NOT_VERIFIED")
               /\ (u.emailVerified = TRUE /\ VerificationConfirmed(u)) =>
                    (res'[r].status = 200 /\ res'[r].token.jwt.userId = u.userId) ]_vars

\* C13: a login that gives correct credentials for no account (the
\* identifier is unknown, the account has no password hash, or the password
\* is wrong), whether or not the account is verified, gets the one response
\* 401 'Invalid credentials'; so 403 is answered only to a caller who gave
\* the password of an account.
C13_LoginUniform401 ==
  [][ \A r \in DOMAIN pc :
        (LoginStep(r) /\ loginSchema(req'[r].body) /\ AccountsOf(req'[r].body) = {})
          => res'[r] = [status |-> 401, error |-> "Invalid credentials"] ]_vars

\* the login in slot l named account u by e-mail or username, in u's tenant
LoginNames(l, u) ==
  /\ IsDone(l, "login")
  /\ req[l].body.tenantId = u.tenantId
  /\ ToLower(req[l].body.emailOrUsername) \in {u.email, u.username}

\* a login with a wrong password for an account that a signup before it had
\* created and that is still unverified was answered 401
C13_Witness ==
  \E l \in DOMAIN pc : \E u \in db.users :
    /\ LoginNames(l, u) /\ res[l].status = 401
    /\ u.emailVerified = FALSE
    /\ ~verifyPassword(req[l].body.password, u.passwordHash)
    /\ \E s \in req[l].after : req[s].kind = "signup" /\ res[s].status = 201
                                /\ req[s].userId = u.userId
    /\ UsersByEmailOrUsername(u.tenantId, ToLower(req[l].body.emailOrUsername),
                              ToLower(req[l].body.emailOrUsername)) = {u}

\* the handler of POST /groups in slot r is about to insert a group whose
\* lowercased slug a group of the requester's tenant already has
SlugTaken(r) ==
  /\ pc[r] = "group_insert"
  /\ \E g \in db.groups :
       g.tenantId = req[r].user.tenantId /\ g.slug = ToLower(req[r].body.slug)

\* C14: POST /groups with a slug that, lowercased, a group of the same tenant
\* already uses is answered 409 and creates neither a group row nor a
\* membership row.
C14_GroupSlugConflictIs409 ==
  [][ \A r \in DOMAIN pc :
        (SlugTaken(r) /\ pc'[r] # pc[r]) =>
          /\ pc'[r] = "done" /\ res'[r].status = 409
          /\ db'.groups = db.groups /\ db'.groupMembers = db.groupMembers ]_vars

\* the authenticated like, comment or join request in slot r names a
\* well-formed id that no post (no group, for a join) of the requester's
\* tenant has, and its handler is about to write
NamesNoTarget(r) ==
  /\ pc[r] \in {"like_insert", "comment_insert", "join_insert"}
  /\ oid(req[r].id) # Null
  /\ \A t \in (IF req[r].kind = "join" THEN db.groups ELSE db.posts) :
       ~(t._id = oid(req[r].id)[1] /\ t.tenantId = req[r].user.tenantId)

\* C15: a like, comment or group-join request that names a well-formed id
\* matching no post or group of the requester's tenant is answered 404 and
\* writes no like, comment or membership row.
C15_UnknownIdIs404 ==
  [][ \A r \in DOMAIN pc :
        (NamesNoTarget(r) /\ pc'[r] # pc[r]) =>
          /\ pc'[r] = "done" /\ res'[r].status = 404
          /\ db'.likes = db.likes /\ db'.comments = db.comments
          /\ db'.groupMembers = db.groupMembers ]_vars

\* the membership rows of the user and the group that the join in slot r names
MembershipOf(r, members) ==
  {m \in members : /\ m.tenantId = req[r].user.tenantId
                   /\ m.groupId = oid(req[r].id)[1]
                   /\ m.userId = req[r].user.userId}

ListedAfterRead(l, rd) ==
  /\ IsDone(l, "list") /\ res[l].status = 200
  /\ IsDone(rd, "read") /\ res[rd].status = 200 /\ req[rd].id = Hex(20)
  /\ req[rd].by = req[l].by
  /\ rd \in req[l].after

\* the slots of the requests of this kind for chat 20 that have begun
Begun(kind) == {s \in DOMAIN pc : req[s].kind = kind /\ req[s].id = Hex(20)}

\* the message of slot s was sent after the read in slot rd had completed and
\* was stored before the list request in slot l began, and the user of rd
\* has begun no read of the chat since
SentBetween(s, rd, l) ==
  /\ s \in Begun("send") /\ res[s].status = 201
  /\ rd \in req[s].after /\ s \in req[l].after
  /\ \A x \in Begun("read") : req[x].by = req[rd].by => (x = rd \/ x \in req[rd].after)

\* C17: GET /chats by a participant whose GET /chats/:id/messages has
\* completed reports unread false for the chat as long as no message has
\* been sent to it since, and unread true once a message has been sent to it
\* after that read.
C17_UnreadAfterRead ==
  \A l, rd \in DOMAIN pc :
    ListedAfterRead(l, rd) =>
      /\ (\A s \in Begun("send") : s \in req[rd].after)
           => [_id |-> 20, unread |-> FALSE] \in res[l].chats
      /\ (\E s \in DOMAIN pc : SentBetween(s, rd, l))
           => [_id |-> 20, unread |-> TRUE] \in res[l].chats

\* the collections of tenant-scoped documents
Collections == DOMAIN db \ {"nextId", "issued"}

\* the documents a step inserts, updates or deletes
Touched(c) == (db'[c] \ db[c]) \cup (db[c] \ db'[c])

\* the documents of collection c with one of these ids
ById(c, ids) == {d \in db[c] : d._id \in ids}

\* the documents the response carries or names
Returned(response) ==
  (IF "chat" \in DOMAIN response THEN {response.chat} ELSE {})
  \cup (IF "comment" \in DOMAIN response THEN {response.comment} ELSE {})
  \cup (IF "messages" \in DOMAIN response THEN ById("messages", response.messages) ELSE {})
  \cup (IF "chats" \in DOMAIN response
          THEN ById("chats", {c._id : c \in response.chats}) ELSE {})
  \cup (IF "group" \in DOMAIN response THEN ById("groups", {response.group}) ELSE {})

C19_StoreFailureIs500 ==
  \A r \in DOMAIN pc :
    "failed" \in DOMAIN req[r] => (pc[r] = "done" /\ res[r].status = 500)

\* a GET /posts request with finite lat and lng that was answered with a list
GeoListed(r) ==
  /\ pc[r] = "done" /\ req[r].kind = "list_posts" /\ res[r].status = 200
  /\ req[r].query.lng # Null
  /\ IsFinite(parseFloat(req[r].query.lat[1]))
  /\ IsFinite(parseFloat(req[r].query.lng[1]))

\* the query point and the radius in metres of a geo request
QueryPoint(r) ==
  Point(parseFloat(req[r].query.lng[1]).n, parseFloat(req[r].query.lat[1]).n)

QueryRadius(r) ==
  IF req[r].query.radiusKm = Null THEN Num(10000)
  ELSE LET km == parseFloat(req[r].query.radiusKm[1])
       IN IF ~IsFinite(km) THEN NaN
          ELSE Num(IF km.n < 0 THEN 0 ELSE km.n \div 1000)

\* C20: GET /posts with finite lat and lng returns only posts of the
\* requester's tenant that have a location at distance at most
\* max(0, radiusKm) km from the query point, ordered by ascending distance
\* and, for equal distance, newest first; with radiusKm = 0 only posts
\* located exactly at the query point are returned, and posts without a
\* location are never returned.
C20_GeoListing ==
  \A r \in DOMAIN pc :
    GeoListed(r) =>
      LET posts == res[r].posts
          radius == QueryRadius(r)
      IN /\ res[r].meta.mode = "geo"
         /\ \A i \in DOMAIN posts :
              /\ posts[i].tenantId = req[r].user.tenantId
              /\ posts[i].location # Null
              /\ IsFinite(radius)
              /\ Distance(posts[i].location[1], QueryPoint(r)) <= radius.n
              /\ radius.n = 0 => posts[i].location[1] = QueryPoint(r)
         /\ \A i, j \in DOMAIN posts :
              i < j =>
                LET di == Distance(posts[i].location[1], QueryPoint(r))
                    dj == Distance(posts[j].location[1], QueryPoint(r))
                IN di < dj \/ (di = dj /\ posts[i].createdAt >= posts[j].createdAt)

\* A geo request with a positive radius was answered with three posts or
\* more, two of them at the same distance and of different age and one
\* nearer, while the requester's tenant holds a post with a location outside
\* the radius and a post without location, and another tenant holds a post at
\* the query point.
C20_Witness ==
  \E r \in DOMAIN pc :
    /\ GeoListed(r)
    /\ QueryRadius(r).n > 0
    /\ Len(res[r].posts) >= 3
    /\ \E i, j, k \in DOMAIN res[r].posts :
         /\ res[r].posts[i].distanceMeters < res[r].posts[j].distanceMeters
         /\ res[r].posts[j].distanceMeters = res[r].posts[k].distanceMeters
         /\ res[r].posts[j].createdAt > res[r].posts[k].createdAt
    /\ \E p \in db.posts :
         /\ p.tenantId = req[r].user.tenantId /\ p.location # Null
         /\ Distance(p.location[1], QueryPoint(r)) > QueryRadius(r).n
    /\ \E p \in db.posts : p.tenantId = req[r].user.tenantId /\ p.location = Null
    /\ \E p \in db.posts :
         p.tenantId # req[r].user.tenantId /\ p.location = <<QueryPoint(r)>>

\* a request is between two of its store operations
InFlight(r) == pc[r] \notin {"idle", "done", "hung"}

\* the like rows of a post: those of its tenant that name it
LikeRowsOf(p) == {l \in db.likes : l.tenantId = p.tenantId /\ l.postId = p._id}

\* C22: whenever no like or unlike request is in flight (no store operation
\* fails in this specification), every post's likesCount equals the number
\* of like rows for (tenant, post).
C22_LikesCountMatchesRows ==
  (\A r \in DOMAIN pc : ~InFlight(r)) =>
    \A p \in db.posts : p.likesCount = Cardinality(LikeRowsOf(p))

\* Nothing is in flight after a like and an unlike of the same user for
\* the same post ran overlapped (neither began after the other was
\* answered) and both changed the store.
C22_Witness ==
  /\ \A r \in DOMAIN pc : ~InFlight(r)
  /\ \E l, u \in DOMAIN pc :
       /\ IsDone(l, "like") /\ res[l].status = 201
       /\ IsDone(u, "unlike") /\ res[u].status = 200
       /\ req[l].by = req[u].by /\ req[l].id = req[u].id
       /\ l \notin req[u].after /\ u \notin req[l].after
       /\ \E p \in db.posts : p._id = oid(req[l].id)[1] /\ p.tenantId = req[l].user.tenantId

\* C23: a post's likesCount is never negative, in any reachable state.
C23_LikesCountNotNegative ==
  \A p \in db.posts : p.likesCount >= 0

\* A like and an unlike of the same user for the same existing post are
\* both between their two store operations.
C23_Witness ==
  \E l, u \in DOMAIN pc :
    /\ pc[l] = "like_inc" /\ pc[u] = "unlike_dec"
    /\ req[l].by = req[u].by /\ req[l].id = req[u].id
    /\ \E p \in db.posts : p._id = oid(req[l].id)[1] /\ p.tenantId = req[l].user.tenantId

\* the comment rows of a post: those of its tenant that name it
CommentRowsOf(p) == {c \in db.comments : c.tenantId = p.tenantId /\ c.postId = p._id}

\* C24: whenever no comment request is in flight (no store operation fails
\* in this specification), every post's commentsCount equals the number of
\* its comment rows: each removal of a comment decrements the counter
\* exactly once, also after two DELETE requests for one comment overlapped.
C24_CommentsCountMatchesRows ==
  (\A r \in DOMAIN pc : ~InFlight(r)) =>
    \A p \in db.posts : p.commentsCount = Cardinality(CommentRowsOf(p))

\* the users of a tenant that the lookup of POST /auth/login matches for an
\* identifier
Holders(tenantId, identifier) ==
  {u \in db.users : /\ u.tenantId = tenantId
                    /\ (u.email = identifier \/ u.username = identifier)}

\* C25: for each tenant and each identifier string at most one user has an
\* email equal to it or a username equal to it, in every reachable state.
C25_IdentifierNamesOneUser ==
  \A u \in db.users :
    /\ Cardinality(Holders(u.tenantId, u.email)) <= 1
    /\ Cardinality(Holders(u.tenantId, u.username)) <= 1

\* C26: for a completed GET /chats/:id/messages call on chat 20 (skip 0,
\* fewer messages than the limit), every message of the chat whose createdAt
\* is not later than the lastReadAt written by the call is contained in the
\* call's response.
C26_ReadMarksOnlyDelivered ==
  \A rd \in DOMAIN pc :
    (IsDone(rd, "read") /\ res[rd].status = 200) =>
      \A m \in db.messages :
        (/\ m.tenantId = req[rd].user.tenantId
         /\ m.chatId = oid(req[rd].id)[1]
         /\ m.createdAt <= req[rd].now) => m._id \in res[rd].messages

\* the unused password-reset tokens of an account
UnusedResets(tenantId, email) ==
  {p \in db.passwordResets : p.tenantId = tenantId /\ p.email = email /\ p.usedAt = Null}

\* C27: at most one unused password-reset token exists per (tenantId,
\* email), in every reachable state.
C27_OneUnusedResetToken ==
  \A p \in db.passwordResets : Cardinality(UnusedResets(p.tenantId, p.email)) <= 1

\* a call of request() that has settled
Requested(r) == pc[r] = "done" /\ req[r].kind = "request"

\* the calls of refreshAccessToken that request() made in its catch
RetryRefreshes(r) == {i \in DOMAIN req[r].calls : req[r].calls[i] = "r_refresh"}

SessionExpired(r) ==
  /\ req[r].cleared
  /\ res[r].outcome = "rejected"
  /\ res[r].error = "Session expired. Please log in again."

\* C21: the original request is sent at most twice per request() call; when
\* the first attempt is answered 401, refreshAccessToken is called once and,
\* the refresh done, the request is re-issued exactly once; if the refresh
\* or the retry fails the call clears the stored tokens and rejects with
\* 'Session expired. Please log in again.'.
C21_RefreshOnceRetryOnce ==
  \A r \in DOMAIN pc :
    Requested(r) =>
      /\ Len(req[r].sent) <= 2
      /\ (Len(req[r].answers) >= 1 /\ req[r].answers[1] = 401) =>
           /\ Cardinality(RetryRefreshes(r)) = 1
           /\ IF req[r].refreshed # <<>> /\ req[r].refreshed[Len(req[r].refreshed)]
                THEN /\ Len(req[r].sent) = 2
                     /\ req[r].answers[2] # 200 => SessionExpired(r)
                ELSE Len(req[r].sent) = 1 /\ SessionExpired(r)

\* the refreshes whose POST /auth/refresh has been sent and not answered
RefreshesInFlight == { id \in DOMAIN client.iife : client.iife[id].pc = "i_fetch" }

\* the calls of refreshAccessToken the call in slot r has made
CallsOf(r) == IF pc[r] = "idle" THEN <<>> ELSE req[r].calls

\* the step is a call of refreshAccessToken by slot r
CallsRefresh(r) == pc[r] # "done" /\ pc'[r] # "idle" /\ Len(req'[r].calls) > Len(CallsOf(r))

\* C28: among concurrent request() calls at most one POST /auth/refresh is
\* in flight at any time; a call of refreshAccessToken made while one is in
\* flight starts none and awaits that one, whose outcome is the one it is
\* given; a call made when every earlier refresh has settled starts a new one
C28_OneRefreshInFlight ==
  [][ /\ Cardinality(RefreshesInFlight') <= 1
      /\ \A r \in DOMAIN pc :
           CallsRefresh(r) =>
             /\ \A id \in RefreshesInFlight :
                  /\ req'[r].awaits = <<id>>
                  /\ client'.iife = client.iife
             /\ (\A id \in DOMAIN client.iife :
                   client.iife[id].pc \in {"none", "resolved", "rejected"})
                  => client.iife[req'[r].awaits[1]].pc = "none"
      /\ \A r \in DOMAIN pc :
           (pc[r] \in {"r_proactive", "r_refresh"} /\ pc'[r] # pc[r]) =>
             req'[r].refreshed[Len(req'[r].refreshed)]
               = (client.iife[req[r].awaits[1]].pc = "resolved") ]_vars

\* two calls of request() await the same refresh, whose POST is in flight
C28_Witness ==
  \E id \in RefreshesInFlight :
    /\ \A r \in ClientSlots :
         pc[r] \in {"r_proactive", "r_refresh"} /\ req[r].awaits = <<id>>
    /\ \E r \in ClientSlots : id[1] # r

\* the refresh the call in slot r awaited after its 401 failed
RefreshFailed(r) ==
  /\ req[r].refreshed # <<>>
  /\ ~req[r].refreshed[Len(req[r].refreshed)]

\* C29: request() calls clearTokens only when the refresh failed or the
\* retried request was answered 401; a retry that fails with a server error
\* or a network error, and a first attempt that fails with another status
\* than 401, leave the stored tokens as they are
C29_ClearsOnlyOnRefreshFailureOr401 ==
  \A r \in DOMAIN pc :
    (Requested(r) /\ req[r].cleared) =>
      \/ RefreshFailed(r)
      \/ Len(req[r].answers) = 2 /\ req[r].answers[2] = 401

\* the calls of the token store of a kind that have begun, and those done
StoreCalls(kind) == { r \in DOMAIN pc : pc[r] # "idle" /\ req[r].kind = kind }

StoreDone(kind) == { r \in StoreCalls(kind) : pc[r] = "done" }

\* C30: a getTokens() call made after a clearTokens() has completed returns
\* null unless tokens were saved since that clearTokens() began, whatever
\* calls of getTokens were waiting for storage meanwhile; and, no saveTokens
\* being under way, memory holds no tokens that storage does not hold
C30_ClearedStaysCleared ==
  /\ \A g \in StoreDone("getTokens"), c \in StoreDone("clearTokens") :
       ( /\ c \in req[g].after
         /\ \A s \in StoreCalls("saveTokens") : pc[s] = "done" /\ s \in req[c].after )
       => res[g].tokens = Null
  /\ (\A s \in StoreCalls("saveTokens") : pc[s] = "done")
       => (client.memory # Null => client.memory = client.storage)

====
